---- MODULE Spec2Model ----
(***************************************************************************)
(* Model of CodebaseAnalyzer._call_llm and _get_fallback_structure         *)
(* (src/final.py): the retry loop around the chat-completion call, the     *)
(* JSON parse of the returned text, the regex repair of the last attempt   *)
(* and the keyword-selected fallback templates.                            *)
(*                                                                         *)
(* Texts (prompts, model responses) are sequences of one-character         *)
(* strings.  A Python value (the result of json.loads, or a template) is   *)
(* the sequence of the tokens of its serialisation: "{", "}", "[", "]",    *)
(* ":", ",", the literals, the digits of a number, and for a string a      *)
(* token made of a double quote followed by the string's characters.       *)
(***************************************************************************)
EXTENDS Integers, Sequences, FiniteSets, TLC

(***************************************************************************)
(* Text primitives                                                         *)
(***************************************************************************)

\* the backquote character, which a TLA+ string cannot hold
BackTick == "<backtick>"

\* the characters str.strip() removes and json's WHITESPACE regex skips
IsWs(c) == c \in {" ", "\n", "\r", "\t"}

\* a control character inside a JSON string: json.loads is strict
IsControl(c) == c \in {"\n", "\r", "\t"}

IsDigit(c) == c \in {"0", "1", "2", "3", "4", "5", "6", "7", "8", "9"}

\* s[a..b], empty when b < a
Slice(s, a, b) == IF b < a THEN << >> ELSE SubSeq(s, a, b)

RECURSIVE Concat(_)
\* the characters of s joined into one string
Concat(s) == IF s = << >> THEN "" ELSE Head(s) \o Concat(Tail(s))

RECURSIVE SkipWs(_, _)
\* the first index >= i of s that holds no whitespace (Len(s)+1 if none)
SkipWs(s, i) ==
    IF i <= Len(s) /\ IsWs(s[i]) THEN SkipWs(s, i + 1) ELSE i

RECURSIVE SkipWsBack(_, _)
\* the last index <= i of s that holds no whitespace (0 if none)
SkipWsBack(s, i) ==
    IF i >= 1 /\ IsWs(s[i]) THEN SkipWsBack(s, i - 1) ELSE i

\* str.strip()
Strip(s) == Slice(s, SkipWs(s, 1), SkipWsBack(s, Len(s)))

RECURSIVE ReplaceNewlines(_)
\* content.replace('\n', ' ').replace('\r', '')
ReplaceNewlines(s) ==
    IF s = << >> THEN << >>
    ELSE IF Head(s) = "\n" THEN <<" ">> \o ReplaceNewlines(Tail(s))
    ELSE IF Head(s) = "\r" THEN ReplaceNewlines(Tail(s))
    ELSE <<Head(s)>> \o ReplaceNewlines(Tail(s))

\* does the text w start at index i of s
StartsAt(s, i, w) ==
    /\ i + Len(w) - 1 <= Len(s)
    /\ \A k \in 1..Len(w) : s[i + k - 1] = w[k]

\* Python's  w in s
Contains(s, w) == \E i \in 1..(Len(s) - Len(w) + 1) : StartsAt(s, i, w)

(***************************************************************************)
(* json.loads                                                              *)
(*                                                                         *)
(* A scan result is [ok, end, kind, toks]: end is the index after the      *)
(* value, kind the Python type of the value, toks its tokens.  The texts   *)
(* of the model hold no backslash, sign, fraction or exponent.             *)
(***************************************************************************)

ScanFail == [ok |-> FALSE, end |-> 0, kind |-> "none", toks |-> << >>]

ScanOk(e, k, t) == [ok |-> TRUE, end |-> e, kind |-> k, toks |-> t]

RECURSIVE StringEnd(_, _)
\* the index of the closing quote of a string whose body starts at i, or 0
\* when a control character or the end of the text comes first
StringEnd(s, i) ==
    IF i > Len(s) THEN 0
    ELSE IF s[i] = "\"" THEN i
    ELSE IF IsControl(s[i]) THEN 0
    ELSE StringEnd(s, i + 1)

\* scanstring: i is the index after the opening quote
ScanString(s, i) ==
    LET j == StringEnd(s, i)
    IN  IF j = 0 THEN ScanFail
        ELSE ScanOk(j + 1, "str", <<"\"" \o Concat(Slice(s, i, j - 1))>>)

RECURSIVE DigitsEnd(_, _)
\* the index after the run of digits that starts at i
DigitsEnd(s, i) ==
    IF i <= Len(s) /\ IsDigit(s[i]) THEN DigitsEnd(s, i + 1) ELSE i

\* NUMBER_RE, integer part: 0 | [1-9]\d*
ScanNumber(s, i) ==
    LET j == IF s[i] = "0" THEN i + 1 ELSE DigitsEnd(s, i)
    IN  ScanOk(j, "int", <<Concat(Slice(s, i, j - 1))>>)

RECURSIVE JoinMembers(_, _)
\* the tokens of the members of a dict, keys in insertion order
JoinMembers(keys, vals) ==
    IF keys = << >> THEN << >>
    ELSE <<Head(keys), ":">> \o Head(vals)
           \o (IF Len(keys) > 1 THEN <<",">> ELSE << >>)
           \o JoinMembers(Tail(keys), Tail(vals))

RECURSIVE JoinElements(_)
\* the tokens of the elements of a list
JoinElements(vals) ==
    IF vals = << >> THEN << >>
    ELSE Head(vals) \o (IF Len(vals) > 1 THEN <<",">> ELSE << >>)
           \o JoinElements(Tail(vals))

\* dict[key] = val: a repeated key keeps its place and takes the new value
DictKeys(keys, key) ==
    IF \E k \in 1..Len(keys) : keys[k] = key THEN keys ELSE Append(keys, key)

DictVals(keys, vals, key, val) ==
    IF \E k \in 1..Len(keys) : keys[k] = key
    THEN [k \in 1..Len(vals) |-> IF keys[k] = key THEN val ELSE vals[k]]
    ELSE Append(vals, val)

RECURSIVE ScanOnce(_, _)
RECURSIVE ObjectMembers(_, _, _, _)
RECURSIVE ArrayElements(_, _, _)

\* JSONObject's loop: s[i] is the opening quote of the next key
ObjectMembers(s, i, keys, vals) ==
    LET key == ScanString(s, i + 1)
        c   == SkipWs(s, key.end)
        val == ScanOnce(s, SkipWs(s, c + 1))
        e   == SkipWs(s, val.end)
        n   == SkipWs(s, e + 1)
        ks  == DictKeys(keys, key.toks[1])
        vs  == DictVals(keys, vals, key.toks[1], val.toks)
    IN  IF ~key.ok THEN ScanFail
        ELSE IF c > Len(s) \/ s[c] # ":" THEN ScanFail
        ELSE IF ~val.ok THEN ScanFail
        ELSE IF e > Len(s) THEN ScanFail
        ELSE IF s[e] = "}"
             THEN ScanOk(e + 1, "dict", <<"{">> \o JoinMembers(ks, vs) \o <<"}">>)
        ELSE IF s[e] # "," THEN ScanFail
        ELSE IF n > Len(s) \/ s[n] # "\"" THEN ScanFail
        ELSE ObjectMembers(s, n, ks, vs)

\* JSONObject: i is the index after the opening brace
JSONObject(s, i) ==
    LET j == SkipWs(s, i)
    IN  IF j > Len(s) THEN ScanFail
        ELSE IF s[j] = "}" THEN ScanOk(j + 1, "dict", <<"{", "}">>)
        ELSE IF s[j] # "\"" THEN ScanFail
        ELSE ObjectMembers(s, j, << >>, << >>)

\* JSONArray's loop: i is the index of the next element
ArrayElements(s, i, vals) ==
    LET val == ScanOnce(s, i)
        e   == SkipWs(s, val.end)
        vs  == Append(vals, val.toks)
    IN  IF ~val.ok THEN ScanFail
        ELSE IF e > Len(s) THEN ScanFail
        ELSE IF s[e] = "]"
             THEN ScanOk(e + 1, "list", <<"[">> \o JoinElements(vs) \o <<"]">>)
        ELSE IF s[e] # "," THEN ScanFail
        ELSE ArrayElements(s, SkipWs(s, e + 1), vs)

\* JSONArray: i is the index after the opening bracket
JSONArray(s, i) ==
    LET j == SkipWs(s, i)
    IN  IF j > Len(s) THEN ScanFail
        ELSE IF s[j] = "]" THEN ScanOk(j + 1, "list", <<"[", "]">>)
        ELSE ArrayElements(s, j, << >>)

\* scanner.py_make_scanner._scan_once
ScanOnce(s, i) ==
    IF i > Len(s) THEN ScanFail
    ELSE IF s[i] = "\"" THEN ScanString(s, i + 1)
    ELSE IF s[i] = "{" THEN JSONObject(s, i + 1)
    ELSE IF s[i] = "[" THEN JSONArray(s, i + 1)
    ELSE IF StartsAt(s, i, <<"n", "u", "l", "l">>)
         THEN ScanOk(i + 4, "NoneType", <<"null">>)
    ELSE IF StartsAt(s, i, <<"t", "r", "u", "e">>)
         THEN ScanOk(i + 4, "bool", <<"true">>)
    ELSE IF StartsAt(s, i, <<"f", "a", "l", "s", "e">>)
         THEN ScanOk(i + 5, "bool", <<"false">>)
    ELSE IF IsDigit(s[i]) THEN ScanNumber(s, i)
    ELSE ScanFail

\* json.loads(s): a failed result stands for a raised JSONDecodeError
JsonLoads(s) ==
    LET r == ScanOnce(s, SkipWs(s, 1))
    IN  IF ~r.ok THEN ScanFail
        ELSE IF SkipWs(s, r.end) # Len(s) + 1 THEN ScanFail
        ELSE r

(***************************************************************************)
(* The re.search of the repair step.  Its pattern is an opening brace, a    *)
(* run of non-brace characters, any number of groups (a brace pair around  *)
(* non-brace characters, then a run of non-brace characters), a closing    *)
(* brace: it matches objects nested at most one level deep.                *)
(***************************************************************************)

IsBrace(c) == c \in {"{", "}"}

RECURSIVE SkipNonBrace(_, _)
\* a run of non-brace characters from i: the first index >= i with a brace
SkipNonBrace(s, i) ==
    IF i <= Len(s) /\ ~IsBrace(s[i]) THEN SkipNonBrace(s, i + 1) ELSE i

RECURSIVE MatchGroups(_, _)
\* the groups and the closing brace from index j, which holds a brace or is
\* past the end: the index of the closing brace of the match, or 0
MatchGroups(s, j) ==
    IF j > Len(s) THEN 0
    ELSE IF s[j] = "}" THEN j
    ELSE LET k == SkipNonBrace(s, j + 1)
         IN  IF k <= Len(s) /\ s[k] = "}"
             THEN MatchGroups(s, SkipNonBrace(s, k + 1))
             ELSE 0

\* the end of the match of the pattern that starts at index i, or 0
MatchEnd(s, i) ==
    IF s[i] # "{" THEN 0 ELSE MatchGroups(s, SkipNonBrace(s, i + 1))

\* the start indices at which the pattern matches
MatchStarts(s) == {i \in 1..Len(s) : MatchEnd(s, i) # 0}

\* re.search(...): found is whether json_match is not None, group its group(0)
ReSearch(s) ==
    IF MatchStarts(s) = {} THEN [found |-> FALSE, group |-> << >>]
    ELSE LET i == CHOOSE a \in MatchStarts(s) : \A b \in MatchStarts(s) : a <= b
         IN  [found |-> TRUE, group |-> SubSeq(s, i, MatchEnd(s, i))]

(***************************************************************************)
(* _get_fallback_structure                                                 *)
(***************************************************************************)

UpperCase == <<"A", "B", "C", "D", "E", "F", "G", "H", "I", "J", "K", "L", "M",
               "N", "O", "P", "Q", "R", "S", "T", "U", "V", "W", "X", "Y", "Z">>

LowerCase == <<"a", "b", "c", "d", "e", "f", "g", "h", "i", "j", "k", "l", "m",
               "n", "o", "p", "q", "r", "s", "t", "u", "v", "w", "x", "y", "z">>

\* str.lower() of one character
LowerChar(c) ==
    IF \E k \in 1..26 : UpperCase[k] = c
    THEN LowerCase[CHOOSE k \in 1..26 : UpperCase[k] = c]
    ELSE c

\* the text as it is, letter case kept
LowerIdentity(s) == s

\* str.lower()
Lower(s) == [k \in 1..Len(s) |-> LowerChar(s[k])]

MarkerBusiness ==
    <<"b", "u", "s", "i", "n", "e", "s", "s">>

MarkerExecutive ==
    <<"e", "x", "e", "c", "u", "t", "i", "v", "e">>

MarkerApplicationArchitecture ==
    <<"a", "p", "p", "l", "i", "c", "a", "t", "i", "o", "n", " ", "a", "r", "c", "h", "i", "t",
      "e", "c", "t", "u", "r", "e">>

MarkerArchitectureLayers ==
    <<"a", "r", "c", "h", "i", "t", "e", "c", "t", "u", "r", "e", "_", "l", "a", "y", "e", "r", "s">>

MarkerTechnicalArchitecture ==
    <<"t", "e", "c", "h", "n", "i", "c", "a", "l", " ", "a", "r", "c", "h", "i", "t", "e", "c",
      "t", "u", "r", "e">>

MarkerTechnologyStack ==
    <<"t", "e", "c", "h", "n", "o", "l", "o", "g", "y", " ", "s", "t", "a", "c", "k">>

MarkerDatabase ==
    <<"d", "a", "t", "a", "b", "a", "s", "e">>

MarkerUi ==
    <<"u", "i">>

MarkerUx ==
    <<"u", "x">>

MarkerFrd ==
    <<"f", "r", "d">>

MarkerFunctionalRequirements ==
    <<"f", "u", "n", "c", "t", "i", "o", "n", "a", "l", " ", "r", "e", "q", "u", "i", "r", "e",
      "m", "e", "n", "t", "s">>

MarkerTest ==
    <<"t", "e", "s", "t">>

MarkerUserManual ==
    <<"u", "s", "e", "r", " ", "m", "a", "n", "u", "a", "l">>

\* the record returned at src/final.py:504-511
TemplateBusiness ==
    <<"{", "\"business_problem", ":", "\"Analysis in progress - please review generated documents",
      ",", "\"value_propositions", ":", "[", "\"Comprehensive solution", ",",
      "\"Scalable architecture", ",", "\"User-focused design", "]", ",", "\"target_users", ":",
      "[", "\"End users", ",", "\"Administrators", ",", "\"Stakeholders", "]", ",",
      "\"business_benefits", ":", "[", "\"Improved efficiency", ",", "\"Cost reduction", ",",
      "\"Enhanced user experience", "]", ",", "\"competitive_advantages", ":", "[",
      "\"Modern technology stack", ",", "\"Scalable design", "]", ",", "\"executive_summary", ":",
      "\"Comprehensive business solution with modern architecture and user-centric design.", "}">>

\* the record returned at src/final.py:514-530
TemplateApplicationArchitecture ==
    <<"{", "\"architecture_layers", ":", "[", "{", "\"name", ":", "\"Presentation Layer", ",",
      "\"description", ":", "\"User interface and client-side logic", ",", "\"components", ":",
      "[", "\"Web UI", ",", "\"Mobile UI", "]", "}", ",", "{", "\"name", ":",
      "\"Business Logic Layer", ",", "\"description", ":", "\"Core business rules and processing",
      ",", "\"components", ":", "[", "\"Services", ",", "\"Controllers", "]", "}", ",", "{",
      "\"name", ":", "\"Data Access Layer", ",", "\"description", ":",
      "\"Database operations and data management", ",", "\"components", ":", "[", "\"Repositories",
      ",", "\"Data Models", "]", "}", ",", "{", "\"name", ":", "\"Infrastructure Layer", ",",
      "\"description", ":", "\"Cross-cutting concerns and utilities", ",", "\"components", ":",
      "[", "\"Logging", ",", "\"Security", ",", "\"Caching", "]", "}", "]", ",", "\"services", ":",
      "[", "{", "\"name", ":", "\"API Service", ",", "\"type", ":", "\"REST API", ",",
      "\"responsibility", ":", "\"Handle client requests", ",", "\"technologies", ":", "[",
      "\"REST", ",", "\"HTTP", "]", "}", ",", "{", "\"name", ":", "\"Business Service", ",",
      "\"type", ":", "\"Core Logic", ",", "\"responsibility", ":", "\"Process business rules", ",",
      "\"technologies", ":", "[", "\"Application Framework", "]", "}", ",", "{", "\"name", ":",
      "\"Data Service", ",", "\"type", ":", "\"Data Access", ",", "\"responsibility", ":",
      "\"Manage data operations", ",", "\"technologies", ":", "[", "\"ORM", ",", "\"Database", "]",
      "}", "]", ",", "\"communication_patterns", ":", "[", "\"REST API", ",", "\"Event-driven",
      ",", "\"Request-Response", "]", ",", "\"deployment_model", ":",
      "\"Cloud-native containerized deployment", ",", "\"scalability_approach", ":",
      "\"Horizontal scaling with load balancing", ",", "\"performance_optimization", ":", "[",
      "\"Caching", ",", "\"Connection pooling", ",", "\"Async processing", "]", "}">>

\* the record returned at src/final.py:533-556
TemplateTechnicalArchitecture ==
    <<"{", "\"frontend_stack", ":", "[", "{", "\"technology", ":", "\"React/Vue/Angular", ",",
      "\"purpose", ":", "\"Modern web framework", "}", ",", "{", "\"technology", ":",
      "\"HTML5/CSS3", ",", "\"purpose", ":", "\"Markup and styling", "}", "]", ",",
      "\"backend_stack", ":", "[", "{", "\"technology", ":", "\"Node.js/Python/Java", ",",
      "\"purpose", ":", "\"Server-side logic", "}", ",", "{", "\"technology", ":", "\"REST API",
      ",", "\"purpose", ":", "\"API layer", "}", "]", ",", "\"database_stack", ":", "[", "{",
      "\"technology", ":", "\"PostgreSQL/MySQL", ",", "\"purpose", ":",
      "\"Relational data storage", "}", ",", "{", "\"technology", ":", "\"Redis", ",", "\"purpose",
      ":", "\"Caching", "}", "]", ",", "\"infrastructure", ":", "[", "{", "\"component", ":",
      "\"Cloud Platform", ",", "\"technology", ":", "\"AWS/Azure/GCP", ",", "\"purpose", ":",
      "\"Hosting infrastructure", "}", ",", "{", "\"component", ":", "\"Container", ",",
      "\"technology", ":", "\"Docker", ",", "\"purpose", ":", "\"Application containerization",
      "}", "]", ",", "\"integration_points", ":", "[", "{", "\"system", ":", "\"External API", ",",
      "\"method", ":", "\"REST", ",", "\"protocol", ":", "\"HTTPS", "}", "]", ",",
      "\"security_layers", ":", "[", "\"Authentication", ",", "\"Authorization", ",",
      "\"Encryption", ",", "\"Input Validation", "]", ",", "\"cicd_pipeline", ":", "[",
      "\"Source Control", ",", "\"Build", ",", "\"Test", ",", "\"Deploy", "]", ",",
      "\"monitoring_tools", ":", "[", "\"Application logs", ",", "\"Performance metrics", ",",
      "\"Error tracking", "]", "}">>

\* a database record with nothing in it
TemplateDatabaseBlank ==
    <<"{", "\"database_type", ":", "\"", ",", "\"entities", ":", "[", "]", "}">>

\* the record returned at src/final.py:559-581
TemplateDatabase ==
    <<"{", "\"database_type", ":", "\"Relational Database (PostgreSQL/MySQL)", ",", "\"entities",
      ":", "[", "{", "\"name", ":", "\"User", ",", "\"description", ":",
      "\"User account information", ",", "\"attributes", ":", "[", "{", "\"name", ":", "\"id", ",",
      "\"type", ":", "\"integer", ",", "\"constraints", ":", "\"PRIMARY KEY", "}", ",", "{",
      "\"name", ":", "\"username", ",", "\"type", ":", "\"varchar(100)", ",", "\"constraints", ":",
      "\"UNIQUE NOT NULL", "}", ",", "{", "\"name", ":", "\"email", ",", "\"type", ":",
      "\"varchar(255)", ",", "\"constraints", ":", "\"UNIQUE NOT NULL", "}", ",", "{", "\"name",
      ":", "\"created_at", ",", "\"type", ":", "\"timestamp", ",", "\"constraints", ":",
      "\"DEFAULT CURRENT_TIMESTAMP", "}", "]", ",", "\"primary_key", ":", "\"id", ",", "\"indexes",
      ":", "[", "\"idx_username", ",", "\"idx_email", "]", "}", "]", ",", "\"relationships", ":",
      "[", "{", "\"from", ":", "\"User", ",", "\"to", ":", "\"Profile", ",", "\"type", ":",
      "\"one-to-one", ",", "\"description", ":", "\"User has one profile", "}", "]", ",",
      "\"optimization_strategies", ":", "[", "\"Indexing on frequently queried columns", ",",
      "\"Query optimization", ",", "\"Connection pooling", "]", ",", "\"backup_strategy", ":",
      "\"Daily automated backups with point-in-time recovery", ",", "\"data_security", ":", "[",
      "\"Encryption at rest", ",", "\"Encryption in transit", ",", "\"Access control", "]", "}">>

\* the record returned at src/final.py:584-601
TemplateUIUX ==
    <<"{", "\"user_personas", ":", "[", "{", "\"name", ":", "\"Primary User", ",", "\"role", ":",
      "\"End User", ",", "\"goals", ":", "[", "\"Accomplish tasks efficiently", "]", ",",
      "\"pain_points", ":", "[", "\"Complex interfaces", "]", "}", "]", ",", "\"user_journeys",
      ":", "[", "{", "\"persona", ":", "\"Primary User", ",", "\"journey", ":", "\"Main workflow",
      ",", "\"steps", ":", "[", "\"Login", ",", "\"Navigate", ",", "\"Complete task", "]", ",",
      "\"touchpoints", ":", "[", "\"Web interface", "]", "}", "]", ",", "\"key_screens", ":", "[",
      "{", "\"screen_name", ":", "\"Dashboard", ",", "\"purpose", ":",
      "\"Overview of key information", ",", "\"components", ":", "[", "\"Navigation", ",",
      "\"Content area", "]", ",", "\"interactions", ":", "[", "\"Click", ",", "\"Scroll", "]", "}",
      "]", ",", "\"design_system", ":", "{", "\"colors", ":", "[", "\"Primary color", ",",
      "\"Secondary color", ",", "\"Accent color", "]", ",", "\"typography", ":", "[",
      "\"Heading font", ",", "\"Body font", "]", ",", "\"components", ":", "[", "\"Buttons", ",",
      "\"Forms", ",", "\"Cards", "]", "}", ",", "\"accessibility_features", ":", "[",
      "\"Keyboard navigation", ",", "\"Screen reader support", ",", "\"Color contrast", "]", ",",
      "\"responsive_breakpoints", ":", "[", "\"Mobile: 320px-767px", ",", "\"Tablet: 768px-1023px",
      ",", "\"Desktop: 1024px+", "]", "}">>

\* the record returned at src/final.py:604-627
TemplateFRD ==
    <<"{", "\"functional_requirements", ":", "[", "{", "\"id", ":", "\"FR-001", ",",
      "\"requirement", ":", "\"User authentication", ",", "\"priority", ":", "\"High", ",",
      "\"category", ":", "\"Security", ",", "\"description", ":",
      "\"System shall provide secure user authentication", ",", "\"acceptance_criteria", ":", "[",
      "\"Users can login", ",", "\"Passwords are encrypted", "]", "}", "]", ",", "\"use_cases",
      ":", "[", "{", "\"id", ":", "\"UC-001", ",", "\"title", ":", "\"User Login", ",", "\"actor",
      ":", "\"User", ",", "\"description", ":", "\"User logs into the system", ",",
      "\"preconditions", ":", "[", "\"User has account", "]", ",", "\"steps", ":", "[",
      "\"Enter credentials", ",", "\"Submit form", ",", "\"System validates", "]", ",",
      "\"postconditions", ":", "[", "\"User is authenticated", "]", ",", "\"alternate_flows", ":",
      "[", "\"Password reset flow", "]", "}", "]", ",", "\"business_rules", ":", "[", "{",
      "\"rule_id", ":", "\"BR-001", ",", "\"rule", ":", "\"Business rule description", ",",
      "\"rationale", ":", "\"Business justification", "}", "]", ",", "\"data_requirements", ":",
      "[", "{", "\"entity", ":", "\"User", ",", "\"requirements", ":", "[",
      "\"Store user credentials", ",", "\"Track login history", "]", "}", "]", ",",
      "\"interface_requirements", ":", "[", "{", "\"interface", ":", "\"Web Interface", ",",
      "\"type", ":", "\"Browser-based", ",", "\"requirements", ":", "[", "\"Responsive design",
      ",", "\"Modern browsers", "]", "}", "]", ",", "\"non_functional_requirements", ":", "[", "{",
      "\"category", ":", "\"Performance", ",", "\"requirement", ":", "\"Page load time", ",",
      "\"metric", ":", "\"< 2 seconds", "}", ",", "{", "\"category", ":", "\"Security", ",",
      "\"requirement", ":", "\"Data encryption", ",", "\"metric", ":", "\"256-bit AES", "}", "]",
      "}">>

\* the record returned at src/final.py:630-647
TemplateTest ==
    <<"{", "\"test_strategy", ":",
      "\"Comprehensive testing approach including functional, integration, and system testing",
      ",", "\"test_scenarios", ":", "[", "{", "\"id", ":", "\"TS-001", ",", "\"scenario", ":",
      "\"User login functionality", ",", "\"type", ":", "\"Functional", ",", "\"priority", ":",
      "\"High", "}", "]", ",", "\"test_cases", ":", "[", "{", "\"id", ":", "\"TC-001", ",",
      "\"scenario_id", ":", "\"TS-001", ",", "\"title", ":", "\"Successful login", ",",
      "\"preconditions", ":", "[", "\"User account exists", "]", ",", "\"steps", ":", "[",
      "\"Enter credentials", ",", "\"Click login", "]", ",", "\"expected_results", ":", "[",
      "\"User is logged in", "]", ",", "\"test_data", ":", "\"Valid credentials", "}", "]", ",",
      "\"automation_candidates", ":", "[", "\"Login tests", ",", "\"API tests", "]", ",",
      "\"performance_tests", ":", "[", "{", "\"test", ":", "\"Load test", ",", "\"criteria", ":",
      "\"1000 concurrent users", ",", "\"expected_result", ":", "\"Response time < 2s", "}", "]",
      ",", "\"security_tests", ":", "[", "{", "\"test", ":", "\"Authentication test", ",",
      "\"description", ":", "\"Verify secure authentication", "}", "]", "}">>

\* the record returned at src/final.py:650-673
TemplateUserManual ==
    <<"{", "\"introduction", ":",
      "\"This user manual provides comprehensive guidance on using the system.", ",",
      "\"getting_started", ":", "[", "{", "\"step", ":", "\"Installation", ",", "\"description",
      ":", "\"Install the application", ",", "\"screenshot_note", ":", "\"Installation wizard",
      "}", "]", ",", "\"features", ":", "[", "{", "\"feature", ":", "\"Main Feature", ",",
      "\"description", ":", "\"Primary functionality", ",", "\"how_to_use", ":", "[", "\"Step 1",
      ",", "\"Step 2", "]", ",", "\"tips", ":", "[", "\"Use shortcuts", "]", "}", "]", ",",
      "\"common_tasks", ":", "[", "{", "\"task", ":", "\"Common task", ",", "\"steps", ":", "[",
      "\"Step 1", ",", "\"Step 2", "]", ",", "\"notes", ":", "[", "\"Important note", "]", "}",
      "]", ",", "\"troubleshooting", ":", "[", "{", "\"issue", ":", "\"Common issue", ",",
      "\"solution", ":", "\"Solution steps", ",", "\"prevention", ":", "\"How to prevent", "}",
      "]", ",", "\"faq", ":", "[", "{", "\"question", ":", "\"Common question", ",", "\"answer",
      ":", "\"Detailed answer", "}", "]", ",", "\"support_info", ":", "{", "\"contact", ":",
      "\"support@company.com", ",", "\"hours", ":", "\"24/7", ",", "\"resources", ":", "[",
      "\"Documentation", ",", "\"Knowledge base", "]", "}", "}">>

\* a record with no key
TemplateGenericEmpty == <<"{", "}">>

\* the record returned at src/final.py:676-679
TemplateGeneric ==
    <<"{", "\"message", ":", "\"Analysis in progress", ",", "\"status", ":",
      "\"Please review generated documents for details", "}">>

\* the architecture branch tested before the business branch
FallbackCategoryArchitectureFirst(prompt) ==
    LET p == Lower(prompt)
    IN  IF Contains(p, MarkerApplicationArchitecture)
           \/ Contains(p, MarkerArchitectureLayers)
        THEN "application_architecture"
        ELSE IF Contains(p, MarkerBusiness) \/ Contains(p, MarkerExecutive)
        THEN "business"
        ELSE IF Contains(p, MarkerTechnicalArchitecture)
                \/ Contains(p, MarkerTechnologyStack)
        THEN "technical_architecture"
        ELSE IF Contains(p, MarkerDatabase) THEN "database"
        ELSE IF Contains(p, MarkerUi) \/ Contains(p, MarkerUx) THEN "uiux"
        ELSE IF Contains(p, MarkerFrd) \/ Contains(p, MarkerFunctionalRequirements)
        THEN "frd"
        ELSE IF Contains(p, MarkerTest) THEN "test"
        ELSE IF Contains(p, MarkerUserManual) THEN "user_manual"
        ELSE "generic"

\* the test branch tested before the frd branch
FallbackCategoryTestFirst(prompt) ==
    LET p == Lower(prompt)
    IN  IF Contains(p, MarkerBusiness) \/ Contains(p, MarkerExecutive)
        THEN "business"
        ELSE IF Contains(p, MarkerApplicationArchitecture)
                \/ Contains(p, MarkerArchitectureLayers)
        THEN "application_architecture"
        ELSE IF Contains(p, MarkerTechnicalArchitecture)
                \/ Contains(p, MarkerTechnologyStack)
        THEN "technical_architecture"
        ELSE IF Contains(p, MarkerDatabase) THEN "database"
        ELSE IF Contains(p, MarkerUi) \/ Contains(p, MarkerUx) THEN "uiux"
        ELSE IF Contains(p, MarkerTest) THEN "test"
        ELSE IF Contains(p, MarkerFrd) \/ Contains(p, MarkerFunctionalRequirements)
        THEN "frd"
        ELSE IF Contains(p, MarkerUserManual) THEN "user_manual"
        ELSE "generic"

\* the branch of the if/elif chain the prompt takes
FallbackCategory(prompt) ==
    LET p == Lower(prompt)
    IN  IF Contains(p, MarkerBusiness) \/ Contains(p, MarkerExecutive)
        THEN "business"
        ELSE IF Contains(p, MarkerApplicationArchitecture)
                \/ Contains(p, MarkerArchitectureLayers)
        THEN "application_architecture"
        ELSE IF Contains(p, MarkerTechnicalArchitecture)
                \/ Contains(p, MarkerTechnologyStack)
        THEN "technical_architecture"
        ELSE IF Contains(p, MarkerDatabase) THEN "database"
        ELSE IF Contains(p, MarkerUi) \/ Contains(p, MarkerUx) THEN "uiux"
        ELSE IF Contains(p, MarkerFrd) \/ Contains(p, MarkerFunctionalRequirements)
        THEN "frd"
        ELSE IF Contains(p, MarkerTest) THEN "test"
        ELSE IF Contains(p, MarkerUserManual) THEN "user_manual"
        ELSE "generic"

\* the record each branch returns
Template(category) ==
    CASE category = "business" -> TemplateBusiness
      [] category = "application_architecture" -> TemplateApplicationArchitecture
      [] category = "technical_architecture" -> TemplateTechnicalArchitecture
      [] category = "database" -> TemplateDatabase
      [] category = "uiux" -> TemplateUIUX
      [] category = "frd" -> TemplateFRD
      [] category = "test" -> TemplateTest
      [] category = "user_manual" -> TemplateUserManual
      [] OTHER -> TemplateGeneric

_get_fallback_structure(prompt) == Template(FallbackCategory(prompt))

(***************************************************************************)
(* Inputs: the prompts, and what the chat-completion call can do           *)
(***************************************************************************)

PromptBusiness ==
    <<"B", "u", "s", "i", "n", "e", "s", "s">>

PromptBoth ==
    <<"b", "u", "s", "i", "n", "e", "s", "s", " ", "a", "r", "c", "h", "i", "t", "e", "c", "t",
      "u", "r", "e", "_", "l", "a", "y", "e", "r", "s">>

PromptApplication ==
    <<"A", "p", "p", "l", "i", "c", "a", "t", "i", "o", "n", " ", "A", "r", "c", "h", "i", "t",
      "e", "c", "t", "u", "r", "e">>

PromptTechnology ==
    <<"t", "e", "c", "h", "n", "o", "l", "o", "g", "y", " ", "s", "t", "a", "c", "k">>

PromptDatabase ==
    <<"D", "e", "s", "i", "g", "n", " ", "c", "o", "m", "p", "r", "e", "h", "e", "n", "s", "i",
      "v", "e", " ", "d", "a", "t", "a", "b", "a", "s", "e", " ", "s", "c", "h", "e", "m", "a">>

PromptUi ==
    <<"U", "I">>

PromptFrd ==
    <<"F", "R", "D">>

PromptFunctional ==
    <<"f", "u", "n", "c", "t", "i", "o", "n", "a", "l", " ", "r", "e", "q", "u", "i", "r", "e",
      "m", "e", "n", "t", "s">>

PromptTest ==
    <<"T", "e", "s", "t">>

PromptManual ==
    <<"u", "s", "e", "r", " ", "m", "a", "n", "u", "a", "l">>

PromptOther ==
    <<"h", "e", "l", "l", "o">>

Prompts ==
    {PromptBusiness,
     PromptBoth,
     PromptApplication,
     PromptTechnology,
     PromptDatabase,
     PromptUi,
     PromptFrd,
     PromptFunctional,
     PromptTest,
     PromptManual,
     PromptOther}

TextObject ==
    <<"{", "\"", "a", "\"", ":", "1", "}">>

TextObjectSpaced ==
    <<" ", "{", "\"", "a", "\"", ":", " ", "1", "}", "\n">>

TextEmptyObject ==
    <<"{", "}">>

TextArray ==
    <<"[", "1", "]">>

TextNumber ==
    <<"1">>

TextString ==
    <<"\"", "a", "\"">>

TextNull ==
    <<"n", "u", "l", "l">>

TextEmpty ==
<< >>

TextProse ==
    <<"o", "k">>

TextTruncated ==
    <<"{", "\"", "a", "\"", ":", "1">>

TextDeep ==
    <<"{", "{", "{", "a", "}", "}", "}">>

TextFenced ==
    <<BackTick, BackTick, BackTick, "j", "s", "o", "n", "{", "\"", "a", "\"", ":", "1", "}",
      BackTick, BackTick, BackTick>>

TextFencedLines ==
    <<BackTick, BackTick, BackTick, "j", "s", "o", "n", "\n", "{", "\"", "a", "\"", ":", "1", "}",
      "\n", BackTick, BackTick, BackTick>>

TextFencedBraceString ==
    <<BackTick, BackTick, BackTick, "j", "s", "o", "n", "{", "\"", "a", "\"", ":", "\"", "}", "\"",
      "}", BackTick, BackTick, BackTick>>

TextNestedTwo ==
    <<"x", "{", "\"", "a", "\"", ":", "{", "\"", "b", "\"", ":", "1", "}", "}">>

TextNestedThree ==
    <<"x", "{", "\"", "a", "\"", ":", "{", "\"", "b", "\"", ":", "{", "\"", "c", "\"", ":", "1",
      "}", "}", "}">>

TextNewlineString ==
    <<"{", "\"", "a", "\"", ":", "\"", "b", "\n", "c", "\"", "}">>

TextBraceProse ==
    <<"{", "a", "}">>

Texts ==
    {TextObject,
     TextObjectSpaced,
     TextEmptyObject,
     TextArray,
     TextNumber,
     TextString,
     TextNull,
     TextEmpty,
     TextProse,
     TextTruncated,
     TextDeep,
     TextFenced,
     TextFencedLines,
     TextFencedBraceString,
     TextNestedTwo,
     TextNestedThree,
     TextNewlineString,
     TextBraceProse}

\* what one chat-completion call does: it returns a message text, or it
\* raises (an APIError, or the AttributeError and IndexError of a response
\* without content), which no  except json.JSONDecodeError  clause catches
Returns(text) == [raises |-> FALSE, text |-> text]

Raises == [raises |-> TRUE, text |-> << >>]

Outcomes == {Raises} \cup {Returns(t) : t \in Texts}

\* the outcomes of the fuzz of the model collaborator: transport error,
\* empty string, prose, truncated braces, deeply nested unparseable text
FuzzOutcomes ==
    {Raises, Returns(TextEmpty), Returns(TextProse), Returns(TextTruncated),
     Returns(TextDeep)}

\* a collaborator is the set of outcomes its calls can have: any outcome at
\* every call, one and the same outcome at every call, or the fuzz
Collaborators == {Outcomes, FuzzOutcomes} \cup {{o} : o \in Outcomes}

\* the largest max_retries of the model
MaxRetries == 5

(***************************************************************************)
(* _call_llm                                                               *)
(***************************************************************************)

VARIABLES
    prompt,        \* argument
    max_retries,   \* argument
    collaborator,  \* self.client.chat.completions, as a set of outcomes
    attempt,       \* the loop variable; -1 before the loop
    response,      \* the message text of the latest call that returned
    content,       \* the local variable content
    e,             \* the class of the exception the latest except clause bound
    returned,      \* the value returned to the caller
    pc,            \* the position in _call_llm
    invocations,   \* the calls of chat.completions.create started
    completed,     \* the calls that have returned or raised
    failed,        \* the attempts that ended in an except clause
    repairs,       \* the times the repair block was entered
    fallbacks,     \* the calls of _get_fallback_structure
    warnings,      \* the st.warning diagnostics
    errors,        \* the st.error diagnostics
    lookups,       \* the calls of _get_fallback_structure made on its own
    run,           \* the analysis run in progress: flow, input, call number
    analyses,      \* the local variable analyses of the run, in key order
    analysis_complete,  \* st.session_state.analysis_complete
    analysis_data, \* st.session_state.analysis_data
    runs,          \* the analysis runs started
    calls,         \* the frames of the _call_llm calls that run side by side
    buffers,       \* their local variables response and content
    codebase,      \* the files handed to the selection of limited_contents
    limited        \* the files the selection kept

vars == <<prompt, max_retries, collaborator, attempt, response, content, e,
          returned, pc, invocations, completed, failed, repairs, fallbacks,
          warnings, errors, lookups, run, analyses, analysis_complete,
          analysis_data, runs, calls, buffers, codebase, limited>>

\* the variables of the calls side by side and of the file selection
restVars == <<calls, buffers, codebase, limited>>

\* no calls side by side, no file selection
RestInit ==
    /\ calls = << >>
    /\ buffers = << >>
    /\ codebase = << >>
    /\ limited = << >>

sessionVars == <<run, analyses, analysis_complete, analysis_data, runs>>

\* no analysis run is in progress
NoRun == [flow |-> "none", source |-> << >>, step |-> 0]

\* st.session_state.analysis_data = None
None == [none |-> TRUE, mapping |-> << >>]

\* the session state after lines 30-33, no run started
SessionInit ==
    /\ run = NoRun
    /\ analyses = << >>
    /\ analysis_complete = FALSE
    /\ analysis_data = None
    /\ runs = 0

\* a local variable that is not bound yet
Unbound == <<"<unbound>">>

\* no value returned yet
NoValue == [kind |-> "none", toks |-> << >>]

\* the Python value a successful scan stands for
Value(r) == [kind |-> r.kind, toks |-> r.toks]

Init ==
    /\ prompt \in Prompts
    /\ max_retries \in 0..MaxRetries
    /\ collaborator \in Collaborators
    /\ attempt = -1
    /\ response = Unbound
    /\ content = Unbound
    /\ e = "unbound"
    /\ returned = NoValue
    /\ pc = "for"
    /\ invocations = 0
    /\ completed = 0
    /\ failed = 0
    /\ repairs = 0
    /\ fallbacks = 0
    /\ warnings = 0
    /\ errors = 0
    /\ lookups = << >>
    /\ SessionInit
    /\ RestInit

\* a loop whose body runs once before max_retries is looked at
RangeHasNextOnce(a, m) == a + 1 < m \/ a = -1

\* range(max_retries) has a value after a
RangeHasNext(a, m) == a + 1 < m

\* the repair block entered after every parse failure
LastAttemptJsonAlways(a, m) == TRUE

\* the last attempt compared with max_retries instead of max_retries - 1
LastAttemptJsonOffByOne(a, m) == a = m

\* attempt == max_retries - 1, in the except json.JSONDecodeError clause
LastAttemptJson(a, m) == a = m - 1

\* the fallback returned at the first exception of the call
LastAttemptExceptionAlways(a, m) == TRUE

\* attempt == max_retries - 1, in the except Exception clause
LastAttemptException(a, m) == a = m - 1

\* the outer try without its except Exception clause
HandlerJsonOnly(exception) ==
    IF exception = "JSONDecodeError" THEN "except_json" ELSE "raised"

\* the except clause of the outer try that handles an exception
Handler(exception) ==
    IF exception = "JSONDecodeError" THEN "except_json" ELSE "except_exception"

\* the repair block without its try/except
RepairHandlerUncaught(exception) == "raised"

\* the bare except of the repair block: pass, then go on after the block
RepairHandler(exception) == "return_489"

\* an empty dict is not returned: the loop goes on to the next attempt
AfterLoadsNonEmpty(value) ==
    IF value.toks = <<"{", "}">> THEN "for" ELSE "done"

\* where a value that json.loads returned at line 467 goes
AfterLoads(value) == "done"

\* the lookup made on the text of the response
FallbackArgumentContent(p, c) == c

\* the argument of self._get_fallback_structure( ) in _call_llm
FallbackArgument(p, c) == p

\* for attempt in range(max_retries): the next attempt starts its call, or
\* the loop is exhausted and line 496 is next
For ==
    /\ pc = "for"
    /\ IF RangeHasNext(attempt, max_retries)
       THEN /\ attempt' = attempt + 1
            /\ invocations' = invocations + 1
            /\ pc' = "create"
       ELSE /\ pc' = "return_496"
            /\ UNCHANGED <<attempt, invocations>>
    /\ UNCHANGED <<sessionVars, lookups, e, prompt, max_retries,
                   collaborator, response, content, returned, completed,
                   failed, repairs, fallbacks, warnings, errors>>
    /\ UNCHANGED restVars

\* the call of chat.completions.create ends with outcome o; a returned
\* message is stripped into content
Create(o) ==
    /\ pc = "create"
    /\ o \in collaborator
    /\ completed' = completed + 1
    /\ IF o.raises
       THEN /\ pc' = Handler("Exception")
            /\ UNCHANGED <<response, content>>
       ELSE /\ response' = o.text
            /\ content' = Strip(o.text)
            /\ pc' = "loads"
    /\ UNCHANGED <<sessionVars, lookups, e, prompt, max_retries,
                   collaborator, attempt, returned, invocations, failed,
                   repairs, fallbacks, warnings, errors>>
    /\ UNCHANGED restVars

\* parsed_json = json.loads(content); return parsed_json
Loads ==
    /\ pc = "loads"
    /\ LET r == JsonLoads(content)
       IN  IF r.ok
           THEN /\ returned' = Value(r)
                /\ pc' = AfterLoads(Value(r))
           ELSE /\ pc' = Handler("JSONDecodeError")
                /\ UNCHANGED returned
    /\ UNCHANGED <<sessionVars, lookups, e, prompt, max_retries,
                   collaborator, attempt, response, content, invocations,
                   completed, failed, repairs, fallbacks, warnings, errors>>
    /\ UNCHANGED restVars

\* except json.JSONDecodeError: warn, then repair on the last attempt,
\* otherwise go round the loop
ExceptJson ==
    /\ pc = "except_json"
    /\ e' = "JSONDecodeError"
    /\ warnings' = warnings + 1
    /\ failed' = failed + 1
    /\ pc' = IF LastAttemptJson(attempt, max_retries) THEN "repair" ELSE "for"
    /\ UNCHANGED <<sessionVars, lookups, prompt, max_retries, collaborator,
                   attempt, response, content, returned, invocations,
                   completed, repairs, fallbacks, errors>>
    /\ UNCHANGED restVars

\* the repair block: replace the newlines, search the brace region, parse it
Repair ==
    /\ pc = "repair"
    /\ repairs' = repairs + 1
    /\ LET replaced   == ReplaceNewlines(content)
           json_match == ReSearch(replaced)
           r          == JsonLoads(json_match.group)
       IN  IF ~json_match.found
           THEN /\ content' = replaced
                /\ pc' = "return_489"
                /\ UNCHANGED returned
           ELSE /\ content' = json_match.group
                /\ IF r.ok
                   THEN /\ returned' = Value(r)
                        /\ pc' = "done"
                   ELSE /\ pc' = RepairHandler("JSONDecodeError")
                        /\ UNCHANGED returned
    /\ UNCHANGED <<sessionVars, lookups, e, prompt, max_retries,
                   collaborator, attempt, response, invocations, completed,
                   failed, fallbacks, warnings, errors>>
    /\ UNCHANGED restVars

\* st.error(...); return self._get_fallback_structure(prompt)
Return489 ==
    /\ pc = "return_489"
    /\ errors' = errors + 1
    /\ fallbacks' = fallbacks + 1
    /\ returned' = [kind |-> "dict",
                    toks |-> _get_fallback_structure(
                                 FallbackArgument(prompt, content))]
    /\ pc' = "done"
    /\ UNCHANGED <<sessionVars, lookups, e, prompt, max_retries,
                   collaborator, attempt, response, content, invocations,
                   completed, failed, repairs, warnings>>
    /\ UNCHANGED restVars

\* except Exception: report, then fall back on the last attempt, otherwise
\* go round the loop
ExceptException ==
    /\ pc = "except_exception"
    /\ e' = "Exception"
    /\ errors' = errors + 1
    /\ failed' = failed + 1
    /\ pc' = IF LastAttemptException(attempt, max_retries)
             THEN "return_494" ELSE "for"
    /\ UNCHANGED <<sessionVars, lookups, prompt, max_retries, collaborator,
                   attempt, response, content, returned, invocations,
                   completed, repairs, fallbacks, warnings>>
    /\ UNCHANGED restVars

\* return self._get_fallback_structure(prompt), in the except Exception clause
Return494 ==
    /\ pc = "return_494"
    /\ fallbacks' = fallbacks + 1
    /\ returned' = [kind |-> "dict",
                    toks |-> _get_fallback_structure(
                                 FallbackArgument(prompt, content))]
    /\ pc' = "done"
    /\ UNCHANGED <<sessionVars, lookups, e, prompt, max_retries,
                   collaborator, attempt, response, content, invocations,
                   completed, failed, repairs, warnings, errors>>
    /\ UNCHANGED restVars

\* return self._get_fallback_structure(prompt), after the loop
Return496 ==
    /\ pc = "return_496"
    /\ fallbacks' = fallbacks + 1
    /\ returned' = [kind |-> "dict",
                    toks |-> _get_fallback_structure(
                                 FallbackArgument(prompt, content))]
    /\ pc' = "done"
    /\ UNCHANGED <<sessionVars, lookups, e, prompt, max_retries,
                   collaborator, attempt, response, content, invocations,
                   completed, failed, repairs, warnings, errors>>
    /\ UNCHANGED restVars

Next ==
    \/ For
    \/ \E o \in Outcomes : Create(o)
    \/ Loads
    \/ ExceptJson
    \/ Repair
    \/ Return489
    \/ ExceptException
    \/ Return494
    \/ Return496

Spec == Init /\ [][Next]_vars

\* how far below zero the max_retries of the model goes
MaxNegative == 2

\* a call with any integer max_retries, zero and the negative ones included
AnyRetriesInit ==
    /\ prompt \in Prompts
    /\ max_retries \in (0 - MaxNegative)..MaxRetries
    /\ collaborator \in Collaborators
    /\ attempt = -1
    /\ response = Unbound
    /\ content = Unbound
    /\ e = "unbound"
    /\ returned = NoValue
    /\ pc = "for"
    /\ invocations = 0
    /\ completed = 0
    /\ failed = 0
    /\ repairs = 0
    /\ fallbacks = 0
    /\ warnings = 0
    /\ errors = 0
    /\ lookups = << >>
    /\ SessionInit
    /\ RestInit

AnyRetriesSpec == AnyRetriesInit /\ [][Next]_vars

\* the steps of the loop and of the two except clauses
LoopStep ==
    For \/ (\E o \in Outcomes : Create(o)) \/ ExceptJson \/ ExceptException

\* the steps that parse, repair or return a template
ParseStep == Loads \/ Repair \/ Return489 \/ Return494 \/ Return496

\* _call_llm runs in one thread and every statement it reaches is executed;
\* a call of chat.completions.create that is in flight returns or raises.
\* This is weak fairness of LoopStep and of ParseStep; for ParseStep it is
\* spelled out, its enabling condition being the position of the call.
FairSpec ==
    /\ Spec
    /\ WF_vars(LoopStep)
    /\ \/ []<>(pc \notin {"loads", "repair", "return_489", "return_494",
                           "return_496"})
       \/ []<><<ParseStep>>_vars

(***************************************************************************)
(* _get_fallback_structure called on its own                               *)
(***************************************************************************)

PromptBusinessUpper ==
    <<"B", "U", "S", "I", "N", "E", "S", "S">>

PromptExecutive ==
    <<"E", "x", "e", "c", "u", "t", "i", "v", "e", " ", "S", "u", "m", "m", "a", "r", "y">>

PromptExecutiveApplication ==
    <<"e", "x", "e", "c", "u", "t", "i", "v", "e", " ", "a", "p", "p", "l", "i", "c", "a", "t",
      "i", "o", "n", " ", "a", "r", "c", "h", "i", "t", "e", "c", "t", "u", "r", "e">>

PromptLayersUpper ==
    <<"A", "R", "C", "H", "I", "T", "E", "C", "T", "U", "R", "E", "_", "L", "A", "Y", "E", "R",
      "S", " ", "f", "o", "r", " ", "B", "u", "s", "i", "n", "e", "s", "s">>

PromptLayers ==
    <<"a", "r", "c", "h", "i", "t", "e", "c", "t", "u", "r", "e", "_", "l", "a", "y", "e", "r", "s">>

PromptTechnical ==
    <<"T", "e", "c", "h", "n", "i", "c", "a", "l", " ", "A", "r", "c", "h", "i", "t", "e", "c",
      "t", "u", "r", "e">>

PromptDatabaseTest ==
    <<"d", "a", "t", "a", "b", "a", "s", "e", " ", "t", "e", "s", "t">>

PromptUiLower ==
    <<"u", "i">>

PromptUx ==
    <<"U", "X">>

PromptBuild ==
    <<"b", "u", "i", "l", "d">>

PromptFrdLower ==
    <<"f", "r", "d">>

PromptFrdTest ==
    <<"F", "R", "D", " ", "t", "e", "s", "t">>

PromptTestLower ==
    <<"t", "e", "s", "t">>

PromptTestUpper ==
    <<"T", "E", "S", "T">>

PromptManualTitle ==
    <<"U", "s", "e", "r", " ", "M", "a", "n", "u", "a", "l">>

PromptManualTest ==
    <<"u", "s", "e", "r", " ", "m", "a", "n", "u", "a", "l", " ", "t", "e", "s", "t">>

PromptEmpty ==
<< >>

\* the prompts of the lookups
LookupPrompts ==
    Prompts \cup
    {PromptBusinessUpper,
     PromptExecutive,
     PromptExecutiveApplication,
     PromptLayersUpper,
     PromptLayers,
     PromptTechnical,
     PromptDatabaseTest,
     PromptUiLower,
     PromptUx,
     PromptBuild,
     PromptFrdLower,
     PromptFrdTest,
     PromptTestLower,
     PromptTestUpper,
     PromptManualTitle,
     PromptManualTest,
     PromptEmpty}

\* the largest number of lookups of a behaviour
MaxLookups == 2

\* no call of _call_llm is in progress
CallIdle ==
    /\ prompt = << >>
    /\ max_retries = 0
    /\ collaborator = {}
    /\ attempt = -1
    /\ response = Unbound
    /\ content = Unbound
    /\ e = "unbound"
    /\ returned = NoValue
    /\ pc = "idle"
    /\ invocations = 0
    /\ completed = 0
    /\ failed = 0
    /\ repairs = 0
    /\ fallbacks = 0
    /\ warnings = 0
    /\ errors = 0

callVars == <<prompt, max_retries, collaborator, attempt, response, content, e,
              returned, pc, invocations, completed, failed, repairs, fallbacks,
              warnings, errors>>

LookupInit == CallIdle /\ lookups = << >> /\ SessionInit /\ RestInit

\* record = self._get_fallback_structure(p)
Lookup(p) ==
    /\ Len(lookups) < MaxLookups
    /\ lookups' = Append(lookups,
                         [prompt |-> p, record |-> _get_fallback_structure(p)])
    /\ UNCHANGED <<callVars, sessionVars>>
    /\ UNCHANGED restVars

LookupNext == \E p \in LookupPrompts : Lookup(p)

LookupSpec == LookupInit /\ [][LookupNext]_vars

(***************************************************************************)
(* analyze_from_text and analyze_codebase: the prompts of the eight calls  *)
(***************************************************************************)

Digits == <<"0", "1", "2", "3", "4", "5", "6", "7", "8", "9">>

RECURSIVE Str(_)
\* str(n) of a natural number
Str(n) ==
    IF n < 10
    THEN <<Digits[n + 1]>>
    ELSE Str(n \div 10) \o <<Digits[(n % 10) + 1]>>

\* len(text.splitlines()): a line ends at \n, at \r\n and at a lone \r
LineCount(text) ==
    LET ends == {i \in 1..Len(text) :
                    \/ text[i] = "\n"
                    \/ /\ text[i] = "\r"
                       /\ ~(i < Len(text) /\ text[i + 1] = "\n")}
    IN  Cardinality(ends)
        + (IF Len(text) > 0 /\ Len(text) \notin ends THEN 1 ELSE 0)

RECURSIVE Join(_, _)
\* sep.join(items)
Join(sep, items) ==
    IF items = << >> THEN << >>
    ELSE IF Len(items) = 1 THEN items[1]
    ELSE items[1] \o sep \o Join(sep, Tail(items))

\* s[:n]
Prefix(s, n) == SubSeq(s, 1, IF Len(s) < n THEN Len(s) ELSE n)

\* file_summary: a "File: path / Lines: n" entry for each of the first 50
\* files; file_contents is the dict, as the sequence of its items
file_summary(file_contents) ==
    Join(<<"\n">>,
         [k \in 1..Len(Prefix(file_contents, 50)) |->
             <<"F", "i", "l", "e", ":", " ">> \o file_contents[k].path
             \o <<"\n", "L", "i", "n", "e", "s", ":", " ">>
             \o Str(LineCount(file_contents[k].content))])

max_chars == 50000

RECURSIVE LimitedFrom(_, _, _)
\* the loop of lines 300-304 from item k on, total_chars counted so far
LimitedFrom(file_contents, k, total_chars) ==
    IF k > Len(file_contents) THEN << >>
    ELSE IF total_chars + Len(file_contents[k].content) > max_chars THEN << >>
    ELSE <<[path |-> file_contents[k].path,
            content |-> Prefix(file_contents[k].content, 5000)]>>
         \o LimitedFrom(file_contents, k + 1,
                        total_chars + Len(file_contents[k].content))

limited_contents(file_contents) == LimitedFrom(file_contents, 1, 0)

\* the entries of the first limit files, joined by newlines
_format_files_for_prompt(files, limit) ==
    Join(<<"\n">>,
         [k \in 1..Len(Prefix(files, limit)) |->
             <<"\n", "-", "-", "-", " ">> \o files[k].path
             \o <<" ", "-", "-", "-", "\n">>
             \o Prefix(files[k].content, 2000) \o <<"\n">>])


\* business_prompt, src/final.py:88-106
text_business_prompt(user_input) ==
    <<"A", "n", "a", "l", "y", "z", "e", " ", "t", "h", "i", "s", " ", "p", "r", "o", "j", "e",
      "c", "t", " ", "d", "e", "s", "c", "r", "i", "p", "t", "i", "o", "n", " ", "f", "r", "o",
      "m", " ", "a", " ", "B", "U", "S", "I", "N", "E", "S", "S", " ", "P", "E", "R", "S", "P",
      "E", "C", "T", "I", "V", "E", " ", "a", "n", "d", " ", "p", "r", "o", "v", "i", "d", "e",
      ":", "\n", "1", ".", " ", "M", "a", "i", "n", " ", "b", "u", "s", "i", "n", "e", "s", "s",
      " ", "p", "r", "o", "b", "l", "e", "m", " ", "i", "t", " ", "s", "o", "l", "v", "e", "s",
      "\n", "2", ".", " ", "K", "e", "y", " ", "v", "a", "l", "u", "e", " ", "p", "r", "o", "p",
      "o", "s", "i", "t", "i", "o", "n", "s", "\n", "3", ".", " ", "T", "a", "r", "g", "e", "t",
      " ", "u", "s", "e", "r", "s", "/", "s", "t", "a", "k", "e", "h", "o", "l", "d", "e", "r",
      "s", "\n", "4", ".", " ", "B", "u", "s", "i", "n", "e", "s", "s", " ", "b", "e", "n", "e",
      "f", "i", "t", "s", " ", "a", "n", "d", " ", "R", "O", "I", " ", "p", "o", "t", "e", "n",
      "t", "i", "a", "l", "\n", "5", ".", " ", "C", "o", "m", "p", "e", "t", "i", "t", "i", "v",
      "e", " ", "a", "d", "v", "a", "n", "t", "a", "g", "e", "s", "\n", "\n", "P", "r", "o", "j",
      "e", "c", "t", " ", "D", "e", "s", "c", "r", "i", "p", "t", "i", "o", "n", ":", "\n">>
    \o
    user_input
    \o
    <<"\n", "\n", "s", "t", "r", "i", "c", "t", "l", "y", " ", "R", "e", "s", "p", "o", "n", "d",
      " ", "i", "n", " ", "J", "S", "O", "N", " ", "f", "o", "r", "m", "a", "t", " ", "w", "i",
      "t", "h", "o", "u", "t", " ", "a", "n", "y", " ", "m", "a", "r", "k", "i", "n", "g", " ",
      "o", "r", " ", "e", "x", "p", "l", "a", "n", "a", "t", "i", "o", "n", "s", ":", "\n", "{",
      "\n", " ", " ", " ", " ", "\"", "b", "u", "s", "i", "n", "e", "s", "s", "_", "p", "r", "o",
      "b", "l", "e", "m", "\"", ":", " ", "\"", ".", ".", ".", "\"", ",", "\n", " ", " ", " ", " ",
      "\"", "v", "a", "l", "u", "e", "_", "p", "r", "o", "p", "o", "s", "i", "t", "i", "o", "n",
      "s", "\"", ":", " ", "[", "\"", ".", ".", ".", "\"", "]", ",", "\n", " ", " ", " ", " ",
      "\"", "t", "a", "r", "g", "e", "t", "_", "u", "s", "e", "r", "s", "\"", ":", " ", "[", "\"",
      ".", ".", ".", "\"", "]", ",", "\n", " ", " ", " ", " ", "\"", "b", "u", "s", "i", "n", "e",
      "s", "s", "_", "b", "e", "n", "e", "f", "i", "t", "s", "\"", ":", " ", "[", "\"", ".", ".",
      ".", "\"", "]", ",", "\n", " ", " ", " ", " ", "\"", "c", "o", "m", "p", "e", "t", "i", "t",
      "i", "v", "e", "_", "a", "d", "v", "a", "n", "t", "a", "g", "e", "s", "\"", ":", " ", "[",
      "\"", ".", ".", ".", "\"", "]", ",", "\n", " ", " ", " ", " ", "\"", "e", "x", "e", "c", "u",
      "t", "i", "v", "e", "_", "s", "u", "m", "m", "a", "r", "y", "\"", ":", " ", "\"", ".", ".",
      ".", "\"", "\n", "}">>

\* app_arch_prompt, src/final.py:114-132
text_app_arch_prompt(user_input) ==
    <<"D", "e", "s", "i", "g", "n", " ", "d", "e", "t", "a", "i", "l", "e", "d", " ", "a", "p",
      "p", "l", "i", "c", "a", "t", "i", "o", "n", " ", "a", "r", "c", "h", "i", "t", "e", "c",
      "t", "u", "r", "e", ":", "\n", "1", ".", " ", "A", "r", "c", "h", "i", "t", "e", "c", "t",
      "u", "r", "e", " ", "l", "a", "y", "e", "r", "s", " ", "a", "n", "d", " ", "t", "i", "e",
      "r", "s", "\n", "2", ".", " ", "A", "p", "p", "l", "i", "c", "a", "t", "i", "o", "n", " ",
      "c", "o", "m", "p", "o", "n", "e", "n", "t", "s", " ", "a", "n", "d", " ", "s", "e", "r",
      "v", "i", "c", "e", "s", "\n", "3", ".", " ", "C", "o", "m", "m", "u", "n", "i", "c", "a",
      "t", "i", "o", "n", " ", "p", "a", "t", "t", "e", "r", "n", "s", "\n", "4", ".", " ", "D",
      "e", "p", "l", "o", "y", "m", "e", "n", "t", " ", "a", "r", "c", "h", "i", "t", "e", "c",
      "t", "u", "r", "e", "\n", "5", ".", " ", "S", "c", "a", "l", "a", "b", "i", "l", "i", "t",
      "y", " ", "a", "n", "d", " ", "p", "e", "r", "f", "o", "r", "m", "a", "n", "c", "e", " ",
      "d", "e", "s", "i", "g", "n", "\n", "\n", "P", "r", "o", "j", "e", "c", "t", " ", "D", "e",
      "s", "c", "r", "i", "p", "t", "i", "o", "n", ":", "\n">>
    \o
    user_input
    \o
    <<"\n", "\n", "s", "t", "r", "i", "c", "t", "l", "y", " ", "R", "e", "s", "p", "o", "n", "d",
      " ", "i", "n", " ", "J", "S", "O", "N", " ", "f", "o", "r", "m", "a", "t", " ", "w", "i",
      "t", "h", "o", "u", "t", " ", "a", "n", "y", " ", "m", "a", "r", "k", "i", "n", "g", " ",
      "o", "r", " ", "e", "x", "p", "l", "a", "n", "a", "t", "i", "o", "n", "s", ":", "\n", "{",
      "\n", " ", " ", " ", " ", "\"", "a", "r", "c", "h", "i", "t", "e", "c", "t", "u", "r", "e",
      "_", "l", "a", "y", "e", "r", "s", "\"", ":", " ", "[", "{", "\"", "n", "a", "m", "e", "\"",
      ":", " ", "\"", ".", ".", ".", "\"", ",", " ", "\"", "d", "e", "s", "c", "r", "i", "p", "t",
      "i", "o", "n", "\"", ":", " ", "\"", ".", ".", ".", "\"", ",", " ", "\"", "c", "o", "m", "p",
      "o", "n", "e", "n", "t", "s", "\"", ":", " ", "[", "\"", ".", ".", ".", "\"", "]", "}", "]",
      ",", "\n", " ", " ", " ", " ", "\"", "s", "e", "r", "v", "i", "c", "e", "s", "\"", ":", " ",
      "[", "{", "\"", "n", "a", "m", "e", "\"", ":", " ", "\"", ".", ".", ".", "\"", ",", " ",
      "\"", "t", "y", "p", "e", "\"", ":", " ", "\"", ".", ".", ".", "\"", ",", " ", "\"", "r",
      "e", "s", "p", "o", "n", "s", "i", "b", "i", "l", "i", "t", "y", "\"", ":", " ", "\"", ".",
      ".", ".", "\"", ",", " ", "\"", "t", "e", "c", "h", "n", "o", "l", "o", "g", "i", "e", "s",
      "\"", ":", " ", "[", "\"", ".", ".", ".", "\"", "]", "}", "]", ",", "\n", " ", " ", " ", " ",
      "\"", "c", "o", "m", "m", "u", "n", "i", "c", "a", "t", "i", "o", "n", "_", "p", "a", "t",
      "t", "e", "r", "n", "s", "\"", ":", " ", "[", "\"", ".", ".", ".", "\"", "]", ",", "\n", " ",
      " ", " ", " ", "\"", "d", "e", "p", "l", "o", "y", "m", "e", "n", "t", "_", "m", "o", "d",
      "e", "l", "\"", ":", " ", "\"", ".", ".", ".", "\"", ",", "\n", " ", " ", " ", " ", "\"",
      "s", "c", "a", "l", "a", "b", "i", "l", "i", "t", "y", "_", "a", "p", "p", "r", "o", "a",
      "c", "h", "\"", ":", " ", "\"", ".", ".", ".", "\"", ",", "\n", " ", " ", " ", " ", "\"",
      "p", "e", "r", "f", "o", "r", "m", "a", "n", "c", "e", "_", "o", "p", "t", "i", "m", "i",
      "z", "a", "t", "i", "o", "n", "\"", ":", " ", "[", "\"", ".", ".", ".", "\"", "]", "\n", "}">>

\* tech_arch_prompt, src/final.py:140-160
text_tech_arch_prompt(user_input) ==
    <<"D", "e", "s", "i", "g", "n", " ", "c", "o", "m", "p", "r", "e", "h", "e", "n", "s", "i",
      "v", "e", " ", "t", "e", "c", "h", "n", "i", "c", "a", "l", " ", "a", "r", "c", "h", "i",
      "t", "e", "c", "t", "u", "r", "e", ":", "\n", "1", ".", " ", "T", "e", "c", "h", "n", "o",
      "l", "o", "g", "y", " ", "s", "t", "a", "c", "k", " ", "(", "f", "r", "o", "n", "t", "e",
      "n", "d", ",", " ", "b", "a", "c", "k", "e", "n", "d", ",", " ", "d", "a", "t", "a", "b",
      "a", "s", "e", ",", " ", "i", "n", "f", "r", "a", "s", "t", "r", "u", "c", "t", "u", "r",
      "e", ")", "\n", "2", ".", " ", "I", "n", "t", "e", "g", "r", "a", "t", "i", "o", "n", " ",
      "a", "r", "c", "h", "i", "t", "e", "c", "t", "u", "r", "e", "\n", "3", ".", " ", "S", "e",
      "c", "u", "r", "i", "t", "y", " ", "a", "r", "c", "h", "i", "t", "e", "c", "t", "u", "r",
      "e", "\n", "4", ".", " ", "D", "e", "v", "O", "p", "s", " ", "a", "n", "d", " ", "C", "I",
      "/", "C", "D", " ", "p", "i", "p", "e", "l", "i", "n", "e", "\n", "5", ".", " ", "M", "o",
      "n", "i", "t", "o", "r", "i", "n", "g", " ", "a", "n", "d", " ", "l", "o", "g", "g", "i",
      "n", "g", "\n", "\n", "P", "r", "o", "j", "e", "c", "t", " ", "D", "e", "s", "c", "r", "i",
      "p", "t", "i", "o", "n", ":", "\n">>
    \o
    user_input
    \o
    <<"\n", "\n", "s", "t", "r", "i", "c", "t", "l", "y", " ", "R", "e", "s", "p", "o", "n", "d",
      " ", "i", "n", " ", "J", "S", "O", "N", " ", "f", "o", "r", "m", "a", "t", " ", "w", "i",
      "t", "h", "o", "u", "t", " ", "a", "n", "y", " ", "m", "a", "r", "k", "i", "n", "g", " ",
      "o", "r", " ", "e", "x", "p", "l", "a", "n", "a", "t", "i", "o", "n", "s", ":", "\n", "{",
      "\n", " ", " ", " ", " ", "\"", "f", "r", "o", "n", "t", "e", "n", "d", "_", "s", "t", "a",
      "c", "k", "\"", ":", " ", "[", "{", "\"", "t", "e", "c", "h", "n", "o", "l", "o", "g", "y",
      "\"", ":", " ", "\"", ".", ".", ".", "\"", ",", " ", "\"", "p", "u", "r", "p", "o", "s", "e",
      "\"", ":", " ", "\"", ".", ".", ".", "\"", "}", "]", ",", "\n", " ", " ", " ", " ", "\"",
      "b", "a", "c", "k", "e", "n", "d", "_", "s", "t", "a", "c", "k", "\"", ":", " ", "[", "{",
      "\"", "t", "e", "c", "h", "n", "o", "l", "o", "g", "y", "\"", ":", " ", "\"", ".", ".", ".",
      "\"", ",", " ", "\"", "p", "u", "r", "p", "o", "s", "e", "\"", ":", " ", "\"", ".", ".", ".",
      "\"", "}", "]", ",", "\n", " ", " ", " ", " ", "\"", "d", "a", "t", "a", "b", "a", "s", "e",
      "_", "s", "t", "a", "c", "k", "\"", ":", " ", "[", "{", "\"", "t", "e", "c", "h", "n", "o",
      "l", "o", "g", "y", "\"", ":", " ", "\"", ".", ".", ".", "\"", ",", " ", "\"", "p", "u", "r",
      "p", "o", "s", "e", "\"", ":", " ", "\"", ".", ".", ".", "\"", "}", "]", ",", "\n", " ", " ",
      " ", " ", "\"", "i", "n", "f", "r", "a", "s", "t", "r", "u", "c", "t", "u", "r", "e", "\"",
      ":", " ", "[", "{", "\"", "c", "o", "m", "p", "o", "n", "e", "n", "t", "\"", ":", " ", "\"",
      ".", ".", ".", "\"", ",", " ", "\"", "t", "e", "c", "h", "n", "o", "l", "o", "g", "y", "\"",
      ":", " ", "\"", ".", ".", ".", "\"", ",", " ", "\"", "p", "u", "r", "p", "o", "s", "e", "\"",
      ":", " ", "\"", ".", ".", ".", "\"", "}", "]", ",", "\n", " ", " ", " ", " ", "\"", "i", "n",
      "t", "e", "g", "r", "a", "t", "i", "o", "n", "_", "p", "o", "i", "n", "t", "s", "\"", ":",
      " ", "[", "{", "\"", "s", "y", "s", "t", "e", "m", "\"", ":", " ", "\"", ".", ".", ".", "\"",
      ",", " ", "\"", "m", "e", "t", "h", "o", "d", "\"", ":", " ", "\"", ".", ".", ".", "\"", ",",
      " ", "\"", "p", "r", "o", "t", "o", "c", "o", "l", "\"", ":", " ", "\"", ".", ".", ".", "\"",
      "}", "]", ",", "\n", " ", " ", " ", " ", "\"", "s", "e", "c", "u", "r", "i", "t", "y", "_",
      "l", "a", "y", "e", "r", "s", "\"", ":", " ", "[", "\"", ".", ".", ".", "\"", "]", ",", "\n",
      " ", " ", " ", " ", "\"", "c", "i", "c", "d", "_", "p", "i", "p", "e", "l", "i", "n", "e",
      "\"", ":", " ", "[", "\"", ".", ".", ".", "\"", "]", ",", "\n", " ", " ", " ", " ", "\"",
      "m", "o", "n", "i", "t", "o", "r", "i", "n", "g", "_", "t", "o", "o", "l", "s", "\"", ":",
      " ", "[", "\"", ".", ".", ".", "\"", "]", "\n", "}">>

\* db_prompt, src/final.py:168-186
text_db_prompt(user_input) ==
    <<"D", "e", "s", "i", "g", "n", " ", "c", "o", "m", "p", "r", "e", "h", "e", "n", "s", "i",
      "v", "e", " ", "d", "a", "t", "a", "b", "a", "s", "e", " ", "s", "c", "h", "e", "m", "a",
      " ", "a", "n", "d", " ", "d", "a", "t", "a", " ", "m", "o", "d", "e", "l", "s", ":", "\n",
      "1", ".", " ", "E", "n", "t", "i", "t", "y", "-", "R", "e", "l", "a", "t", "i", "o", "n",
      "s", "h", "i", "p", " ", "m", "o", "d", "e", "l", "\n", "2", ".", " ", "C", "o", "r", "e",
      " ", "t", "a", "b", "l", "e", "s", "/", "c", "o", "l", "l", "e", "c", "t", "i", "o", "n",
      "s", "\n", "3", ".", " ", "R", "e", "l", "a", "t", "i", "o", "n", "s", "h", "i", "p", "s",
      " ", "a", "n", "d", " ", "c", "o", "n", "s", "t", "r", "a", "i", "n", "t", "s", "\n", "4",
      ".", " ", "I", "n", "d", "e", "x", "e", "s", " ", "a", "n", "d", " ", "o", "p", "t", "i",
      "m", "i", "z", "a", "t", "i", "o", "n", "\n", "5", ".", " ", "D", "a", "t", "a", " ", "s",
      "e", "c", "u", "r", "i", "t", "y", " ", "a", "n", "d", " ", "b", "a", "c", "k", "u", "p",
      " ", "s", "t", "r", "a", "t", "e", "g", "y", "\n", "\n", "P", "r", "o", "j", "e", "c", "t",
      " ", "D", "e", "s", "c", "r", "i", "p", "t", "i", "o", "n", ":", "\n">>
    \o
    user_input
    \o
    <<"\n", "\n", "s", "t", "r", "i", "c", "t", "l", "y", " ", "R", "e", "s", "p", "o", "n", "d",
      " ", "i", "n", " ", "J", "S", "O", "N", " ", "f", "o", "r", "m", "a", "t", " ", "w", "i",
      "t", "h", "o", "u", "t", " ", "a", "n", "y", " ", "m", "a", "r", "k", "i", "n", "g", " ",
      "o", "r", " ", "e", "x", "p", "l", "a", "n", "a", "t", "i", "o", "n", "s", ":", "\n", "{",
      "\n", " ", " ", " ", " ", "\"", "d", "a", "t", "a", "b", "a", "s", "e", "_", "t", "y", "p",
      "e", "\"", ":", " ", "\"", ".", ".", ".", "\"", ",", "\n", " ", " ", " ", " ", "\"", "e",
      "n", "t", "i", "t", "i", "e", "s", "\"", ":", " ", "[", "{", "\"", "n", "a", "m", "e", "\"",
      ":", " ", "\"", ".", ".", ".", "\"", ",", " ", "\"", "d", "e", "s", "c", "r", "i", "p", "t",
      "i", "o", "n", "\"", ":", " ", "\"", ".", ".", ".", "\"", ",", " ", "\"", "a", "t", "t", "r",
      "i", "b", "u", "t", "e", "s", "\"", ":", " ", "[", "{", "\"", "n", "a", "m", "e", "\"", ":",
      " ", "\"", ".", ".", ".", "\"", ",", " ", "\"", "t", "y", "p", "e", "\"", ":", " ", "\"",
      ".", ".", ".", "\"", ",", " ", "\"", "c", "o", "n", "s", "t", "r", "a", "i", "n", "t", "s",
      "\"", ":", " ", "\"", ".", ".", ".", "\"", "}", "]", ",", " ", "\"", "p", "r", "i", "m", "a",
      "r", "y", "_", "k", "e", "y", "\"", ":", " ", "\"", ".", ".", ".", "\"", ",", " ", "\"", "i",
      "n", "d", "e", "x", "e", "s", "\"", ":", " ", "[", "\"", ".", ".", ".", "\"", "]", "}", "]",
      ",", "\n", " ", " ", " ", " ", "\"", "r", "e", "l", "a", "t", "i", "o", "n", "s", "h", "i",
      "p", "s", "\"", ":", " ", "[", "{", "\"", "f", "r", "o", "m", "\"", ":", " ", "\"", ".", ".",
      ".", "\"", ",", " ", "\"", "t", "o", "\"", ":", " ", "\"", ".", ".", ".", "\"", ",", " ",
      "\"", "t", "y", "p", "e", "\"", ":", " ", "\"", "o", "n", "e", "-", "t", "o", "-", "m", "a",
      "n", "y", "/", "m", "a", "n", "y", "-", "t", "o", "-", "m", "a", "n", "y", "\"", ",", " ",
      "\"", "d", "e", "s", "c", "r", "i", "p", "t", "i", "o", "n", "\"", ":", " ", "\"", ".", ".",
      ".", "\"", "}", "]", ",", "\n", " ", " ", " ", " ", "\"", "o", "p", "t", "i", "m", "i", "z",
      "a", "t", "i", "o", "n", "_", "s", "t", "r", "a", "t", "e", "g", "i", "e", "s", "\"", ":",
      " ", "[", "\"", ".", ".", ".", "\"", "]", ",", "\n", " ", " ", " ", " ", "\"", "b", "a", "c",
      "k", "u", "p", "_", "s", "t", "r", "a", "t", "e", "g", "y", "\"", ":", " ", "\"", ".", ".",
      ".", "\"", ",", "\n", " ", " ", " ", " ", "\"", "d", "a", "t", "a", "_", "s", "e", "c", "u",
      "r", "i", "t", "y", "\"", ":", " ", "[", "\"", ".", ".", ".", "\"", "]", "\n", "}">>

\* uiux_prompt, src/final.py:194-212
text_uiux_prompt(user_input) ==
    <<"C", "r", "e", "a", "t", "e", " ", "c", "o", "m", "p", "r", "e", "h", "e", "n", "s", "i",
      "v", "e", " ", "U", "I", "/", "U", "X", " ", "d", "e", "s", "i", "g", "n", " ", "s", "p",
      "e", "c", "i", "f", "i", "c", "a", "t", "i", "o", "n", "s", ":", "\n", "1", ".", " ", "U",
      "s", "e", "r", " ", "p", "e", "r", "s", "o", "n", "a", "s", "\n", "2", ".", " ", "U", "s",
      "e", "r", " ", "j", "o", "u", "r", "n", "e", "y", "s", " ", "a", "n", "d", " ", "w", "o",
      "r", "k", "f", "l", "o", "w", "s", "\n", "3", ".", " ", "K", "e", "y", " ", "s", "c", "r",
      "e", "e", "n", "s", " ", "a", "n", "d", " ", "w", "i", "r", "e", "f", "r", "a", "m", "e",
      "s", " ", "d", "e", "s", "c", "r", "i", "p", "t", "i", "o", "n", "\n", "4", ".", " ", "D",
      "e", "s", "i", "g", "n", " ", "s", "y", "s", "t", "e", "m", " ", "a", "n", "d", " ", "c",
      "o", "m", "p", "o", "n", "e", "n", "t", "s", "\n", "5", ".", " ", "A", "c", "c", "e", "s",
      "s", "i", "b", "i", "l", "i", "t", "y", " ", "a", "n", "d", " ", "r", "e", "s", "p", "o",
      "n", "s", "i", "v", "e", " ", "d", "e", "s", "i", "g", "n", "\n", "\n", "P", "r", "o", "j",
      "e", "c", "t", " ", "D", "e", "s", "c", "r", "i", "p", "t", "i", "o", "n", ":", "\n">>
    \o
    user_input
    \o
    <<"\n", "\n", "s", "t", "r", "i", "c", "t", "l", "y", " ", "R", "e", "s", "p", "o", "n", "d",
      " ", "i", "n", " ", "J", "S", "O", "N", " ", "f", "o", "r", "m", "a", "t", " ", "w", "i",
      "t", "h", "o", "u", "t", " ", "a", "n", "y", " ", "m", "a", "r", "k", "i", "n", "g", " ",
      "o", "r", " ", "e", "x", "p", "l", "a", "n", "a", "t", "i", "o", "n", "s", ":", "\n", "{",
      "\n", " ", " ", " ", " ", "\"", "u", "s", "e", "r", "_", "p", "e", "r", "s", "o", "n", "a",
      "s", "\"", ":", " ", "[", "{", "\"", "n", "a", "m", "e", "\"", ":", " ", "\"", ".", ".", ".",
      "\"", ",", " ", "\"", "r", "o", "l", "e", "\"", ":", " ", "\"", ".", ".", ".", "\"", ",",
      " ", "\"", "g", "o", "a", "l", "s", "\"", ":", " ", "[", "\"", ".", ".", ".", "\"", "]", ",",
      " ", "\"", "p", "a", "i", "n", "_", "p", "o", "i", "n", "t", "s", "\"", ":", " ", "[", "\"",
      ".", ".", ".", "\"", "]", "}", "]", ",", "\n", " ", " ", " ", " ", "\"", "u", "s", "e", "r",
      "_", "j", "o", "u", "r", "n", "e", "y", "s", "\"", ":", " ", "[", "{", "\"", "p", "e", "r",
      "s", "o", "n", "a", "\"", ":", " ", "\"", ".", ".", ".", "\"", ",", " ", "\"", "j", "o", "u",
      "r", "n", "e", "y", "\"", ":", " ", "\"", ".", ".", ".", "\"", ",", " ", "\"", "s", "t", "e",
      "p", "s", "\"", ":", " ", "[", "\"", ".", ".", ".", "\"", "]", ",", " ", "\"", "t", "o", "u",
      "c", "h", "p", "o", "i", "n", "t", "s", "\"", ":", " ", "[", "\"", ".", ".", ".", "\"", "]",
      "}", "]", ",", "\n", " ", " ", " ", " ", "\"", "k", "e", "y", "_", "s", "c", "r", "e", "e",
      "n", "s", "\"", ":", " ", "[", "{", "\"", "s", "c", "r", "e", "e", "n", "_", "n", "a", "m",
      "e", "\"", ":", " ", "\"", ".", ".", ".", "\"", ",", " ", "\"", "p", "u", "r", "p", "o", "s",
      "e", "\"", ":", " ", "\"", ".", ".", ".", "\"", ",", " ", "\"", "c", "o", "m", "p", "o", "n",
      "e", "n", "t", "s", "\"", ":", " ", "[", "\"", ".", ".", ".", "\"", "]", ",", " ", "\"", "i",
      "n", "t", "e", "r", "a", "c", "t", "i", "o", "n", "s", "\"", ":", " ", "[", "\"", ".", ".",
      ".", "\"", "]", "}", "]", ",", "\n", " ", " ", " ", " ", "\"", "d", "e", "s", "i", "g", "n",
      "_", "s", "y", "s", "t", "e", "m", "\"", ":", " ", "{", "\"", "c", "o", "l", "o", "r", "s",
      "\"", ":", " ", "[", "\"", ".", ".", ".", "\"", "]", ",", " ", "\"", "t", "y", "p", "o", "g",
      "r", "a", "p", "h", "y", "\"", ":", " ", "[", "\"", ".", ".", ".", "\"", "]", ",", " ", "\"",
      "c", "o", "m", "p", "o", "n", "e", "n", "t", "s", "\"", ":", " ", "[", "\"", ".", ".", ".",
      "\"", "]", "}", ",", "\n", " ", " ", " ", " ", "\"", "a", "c", "c", "e", "s", "s", "i", "b",
      "i", "l", "i", "t", "y", "_", "f", "e", "a", "t", "u", "r", "e", "s", "\"", ":", " ", "[",
      "\"", ".", ".", ".", "\"", "]", ",", "\n", " ", " ", " ", " ", "\"", "r", "e", "s", "p", "o",
      "n", "s", "i", "v", "e", "_", "b", "r", "e", "a", "k", "p", "o", "i", "n", "t", "s", "\"",
      ":", " ", "[", "\"", ".", ".", ".", "\"", "]", "\n", "}">>

\* frd_prompt, src/final.py:220-241
text_frd_prompt(user_input) ==
    <<"C", "r", "e", "a", "t", "e", " ", "c", "o", "m", "p", "r", "e", "h", "e", "n", "s", "i",
      "v", "e", " ", "F", "u", "n", "c", "t", "i", "o", "n", "a", "l", " ", "R", "e", "q", "u",
      "i", "r", "e", "m", "e", "n", "t", "s", " ", "D", "o", "c", "u", "m", "e", "n", "t", ":",
      "\n", "\n", "P", "r", "o", "j", "e", "c", "t", " ", "D", "e", "s", "c", "r", "i", "p", "t",
      "i", "o", "n", ":", "\n">>
    \o
    user_input
    \o
    <<"\n", "\n", "P", "l", "e", "a", "s", "e", " ", "e", "n", "s", "u", "r", "e", " ", "a", "l",
      "l", " ", "t", "h", "e", " ", "a", "s", "p", "e", "c", "t", "s", " ", "o", "f", " ", "t",
      "h", "e", " ", "u", "s", "e", "c", "a", "s", "e", " ", "i", "s", " ", "c", "o", "v", "e",
      "r", "e", "d", ".", " ", "G", "i", "v", "e", " ", "m", "e", " ", "a", " ", "c", "o", "v",
      "e", "r", "a", "g", "e", " ", "s", "c", "o", "r", "e", " ", "c", "o", "m", "p", "a", "r",
      "i", "n", "g", " ", "t", "h", "e", " ", "u", "s", "e", "c", "a", "s", "e", " ", "o", "u",
      "t", " ", "o", "f", " ", "1", "0", "0", " ", "i", "n", " ", "p", "e", "r", "c", "e", "n",
      "t", "a", "g", "e", ".", "\n", "\n", "P", "r", "o", "v", "i", "d", "e", " ", "i", "n", " ",
      "J", "S", "O", "N", ":", "\n", "{", "\n", " ", " ", " ", " ", "\"", "f", "u", "n", "c", "t",
      "i", "o", "n", "a", "l", "_", "r", "e", "q", "u", "i", "r", "e", "m", "e", "n", "t", "s",
      "\"", ":", " ", "[", "\n", " ", " ", " ", " ", " ", " ", " ", " ", "{", "\"", "i", "d", "\"",
      ":", " ", "\"", "F", "R", "-", "0", "0", "1", "\"", ",", " ", "\"", "r", "e", "q", "u", "i",
      "r", "e", "m", "e", "n", "t", "\"", ":", " ", "\"", ".", ".", ".", "\"", ",", " ", "\"", "p",
      "r", "i", "o", "r", "i", "t", "y", "\"", ":", " ", "\"", "H", "i", "g", "h", "/", "M", "e",
      "d", "i", "u", "m", "/", "L", "o", "w", "\"", ",", " ", "\"", "c", "a", "t", "e", "g", "o",
      "r", "y", "\"", ":", " ", "\"", ".", ".", ".", "\"", ",", " ", "\"", "d", "e", "s", "c", "r",
      "i", "p", "t", "i", "o", "n", "\"", ":", " ", "\"", "d", "e", "t", "a", "i", "l", "e", "d",
      " ", "d", "e", "s", "c", "r", "i", "p", "t", "i", "o", "n", "\"", ",", " ", "\"", "a", "c",
      "c", "e", "p", "t", "a", "n", "c", "e", "_", "c", "r", "i", "t", "e", "r", "i", "a", "\"",
      ":", " ", "[", "\"", ".", ".", ".", "\"", "]", "}", "\n", " ", " ", " ", " ", "]", ",", "\n",
      " ", " ", " ", " ", "\"", "u", "s", "e", "_", "c", "a", "s", "e", "s", "\"", ":", " ", "[",
      "\n", " ", " ", " ", " ", " ", " ", " ", " ", "{", "\"", "i", "d", "\"", ":", " ", "\"", "U",
      "C", "-", "0", "0", "1", "\"", ",", " ", "\"", "t", "i", "t", "l", "e", "\"", ":", " ", "\"",
      ".", ".", ".", "\"", ",", " ", "\"", "a", "c", "t", "o", "r", "\"", ":", " ", "\"", ".", ".",
      ".", "\"", ",", " ", "\"", "d", "e", "s", "c", "r", "i", "p", "t", "i", "o", "n", "\"", ":",
      " ", "\"", ".", ".", ".", "\"", ",", " ", "\"", "p", "r", "e", "c", "o", "n", "d", "i", "t",
      "i", "o", "n", "s", "\"", ":", " ", "[", "\"", ".", ".", ".", "\"", "]", ",", " ", "\"", "s",
      "t", "e", "p", "s", "\"", ":", " ", "[", "\"", ".", ".", ".", "\"", "]", ",", " ", "\"", "p",
      "o", "s", "t", "c", "o", "n", "d", "i", "t", "i", "o", "n", "s", "\"", ":", " ", "[", "\"",
      ".", ".", ".", "\"", "]", ",", " ", "\"", "a", "l", "t", "e", "r", "n", "a", "t", "e", "_",
      "f", "l", "o", "w", "s", "\"", ":", " ", "[", "\"", ".", ".", ".", "\"", "]", "}", "\n", " ",
      " ", " ", " ", "]", ",", "\n", " ", " ", " ", " ", "\"", "b", "u", "s", "i", "n", "e", "s",
      "s", "_", "r", "u", "l", "e", "s", "\"", ":", " ", "[", "{", "\"", "r", "u", "l", "e", "_",
      "i", "d", "\"", ":", " ", "\"", "B", "R", "-", "0", "0", "1", "\"", ",", " ", "\"", "r", "u",
      "l", "e", "\"", ":", " ", "\"", ".", ".", ".", "\"", ",", " ", "\"", "r", "a", "t", "i", "o",
      "n", "a", "l", "e", "\"", ":", " ", "\"", ".", ".", ".", "\"", "}", "]", ",", "\n", " ", " ",
      " ", " ", "\"", "d", "a", "t", "a", "_", "r", "e", "q", "u", "i", "r", "e", "m", "e", "n",
      "t", "s", "\"", ":", " ", "[", "{", "\"", "e", "n", "t", "i", "t", "y", "\"", ":", " ", "\"",
      ".", ".", ".", "\"", ",", " ", "\"", "r", "e", "q", "u", "i", "r", "e", "m", "e", "n", "t",
      "s", "\"", ":", " ", "[", "\"", ".", ".", ".", "\"", "]", "}", "]", ",", "\n", " ", " ", " ",
      " ", "\"", "i", "n", "t", "e", "r", "f", "a", "c", "e", "_", "r", "e", "q", "u", "i", "r",
      "e", "m", "e", "n", "t", "s", "\"", ":", " ", "[", "{", "\"", "i", "n", "t", "e", "r", "f",
      "a", "c", "e", "\"", ":", " ", "\"", ".", ".", ".", "\"", ",", " ", "\"", "t", "y", "p", "e",
      "\"", ":", " ", "\"", ".", ".", ".", "\"", ",", " ", "\"", "r", "e", "q", "u", "i", "r", "e",
      "m", "e", "n", "t", "s", "\"", ":", " ", "[", "\"", ".", ".", ".", "\"", "]", "}", "]", ",",
      "\n", " ", " ", " ", " ", "\"", "n", "o", "n", "_", "f", "u", "n", "c", "t", "i", "o", "n",
      "a", "l", "_", "r", "e", "q", "u", "i", "r", "e", "m", "e", "n", "t", "s", "\"", ":", " ",
      "[", "{", "\"", "c", "a", "t", "e", "g", "o", "r", "y", "\"", ":", " ", "\"", "P", "e", "r",
      "f", "o", "r", "m", "a", "n", "c", "e", "/", "S", "e", "c", "u", "r", "i", "t", "y", "/",
      "U", "s", "a", "b", "i", "l", "i", "t", "y", "\"", ",", " ", "\"", "r", "e", "q", "u", "i",
      "r", "e", "m", "e", "n", "t", "\"", ":", " ", "\"", ".", ".", ".", "\"", ",", " ", "\"", "m",
      "e", "t", "r", "i", "c", "\"", ":", " ", "\"", ".", ".", ".", "\"", "}", "]", "\n", " ", " ",
      " ", " ", "\"", "c", "o", "n", "f", "i", "d", "e", "n", "c", "e", "_", "s", "c", "o", "r",
      "e", "\"", ":", " ", "[", "\"", "P", "l", "e", "a", "s", "e", " ", "e", "n", "s", "u", "r",
      "e", " ", "a", "l", "l", " ", "t", "h", "e", " ", "a", "s", "p", "e", "c", "t", "s", " ",
      "o", "f", " ", "t", "h", "e", " ", "u", "s", "e", "c", "a", "s", "e", " ", "i", "s", " ",
      "c", "o", "v", "e", "r", "e", "d", ".", " ", "G", "i", "v", "e", " ", "m", "e", " ", "a",
      " ", "c", "o", "v", "e", "r", "a", "g", "e", " ", "s", "c", "o", "r", "e", " ", "c", "o",
      "m", "p", "a", "r", "i", "n", "g", " ", "t", "h", "e", " ", "u", "s", "e", "c", "a", "s",
      "e", " ", "o", "u", "t", " ", "o", "f", " ", "1", "0", "0", " ", "i", "n", " ", "p", "e",
      "r", "c", "e", "n", "t", "a", "g", "e", ".", "\"", "]", "\n", "\n", "}">>

\* test_prompt, src/final.py:249-262
text_test_prompt(user_input) ==
    <<"C", "r", "e", "a", "t", "e", " ", "c", "o", "m", "p", "r", "e", "h", "e", "n", "s", "i",
      "v", "e", " ", "f", "u", "n", "c", "t", "i", "o", "n", "a", "l", " ", "t", "e", "s", "t",
      " ", "s", "c", "r", "i", "p", "t", "s", ":", "\n", "\n", "P", "r", "o", "j", "e", "c", "t",
      " ", "D", "e", "s", "c", "r", "i", "p", "t", "i", "o", "n", ":", "\n">>
    \o
    user_input
    \o
    <<"\n", "\n", "P", "r", "o", "v", "i", "d", "e", " ", "i", "n", " ", "J", "S", "O", "N", ":",
      "\n", "{", "\n", " ", " ", " ", " ", "\"", "t", "e", "s", "t", "_", "s", "t", "r", "a", "t",
      "e", "g", "y", "\"", ":", " ", "\"", ".", ".", ".", "\"", ",", "\n", " ", " ", " ", " ",
      "\"", "t", "e", "s", "t", "_", "s", "c", "e", "n", "a", "r", "i", "o", "s", "\"", ":", " ",
      "[", "{", "\"", "i", "d", "\"", ":", " ", "\"", "T", "S", "-", "0", "0", "1", "\"", ",", " ",
      "\"", "s", "c", "e", "n", "a", "r", "i", "o", "\"", ":", " ", "\"", ".", ".", ".", "\"", ",",
      " ", "\"", "t", "y", "p", "e", "\"", ":", " ", "\"", "F", "u", "n", "c", "t", "i", "o", "n",
      "a", "l", "/", "I", "n", "t", "e", "g", "r", "a", "t", "i", "o", "n", "/", "U", "I", "\"",
      ",", " ", "\"", "p", "r", "i", "o", "r", "i", "t", "y", "\"", ":", " ", "\"", "H", "i", "g",
      "h", "/", "M", "e", "d", "i", "u", "m", "/", "L", "o", "w", "\"", "}", "]", ",", "\n", " ",
      " ", " ", " ", "\"", "t", "e", "s", "t", "_", "c", "a", "s", "e", "s", "\"", ":", " ", "[",
      "{", "\"", "i", "d", "\"", ":", " ", "\"", "T", "C", "-", "0", "0", "1", "\"", ",", " ",
      "\"", "s", "c", "e", "n", "a", "r", "i", "o", "_", "i", "d", "\"", ":", " ", "\"", "T", "S",
      "-", "0", "0", "1", "\"", ",", " ", "\"", "t", "i", "t", "l", "e", "\"", ":", " ", "\"", ".",
      ".", ".", "\"", ",", " ", "\"", "p", "r", "e", "c", "o", "n", "d", "i", "t", "i", "o", "n",
      "s", "\"", ":", " ", "[", "\"", ".", ".", ".", "\"", "]", ",", " ", "\"", "s", "t", "e", "p",
      "s", "\"", ":", " ", "[", "\"", ".", ".", ".", "\"", "]", ",", " ", "\"", "e", "x", "p", "e",
      "c", "t", "e", "d", "_", "r", "e", "s", "u", "l", "t", "s", "\"", ":", " ", "[", "\"", ".",
      ".", ".", "\"", "]", ",", " ", "\"", "t", "e", "s", "t", "_", "d", "a", "t", "a", "\"", ":",
      " ", "\"", ".", ".", ".", "\"", "}", "]", ",", "\n", " ", " ", " ", " ", "\"", "a", "u", "t",
      "o", "m", "a", "t", "i", "o", "n", "_", "c", "a", "n", "d", "i", "d", "a", "t", "e", "s",
      "\"", ":", " ", "[", "\"", ".", ".", ".", "\"", "]", ",", "\n", " ", " ", " ", " ", "\"",
      "p", "e", "r", "f", "o", "r", "m", "a", "n", "c", "e", "_", "t", "e", "s", "t", "s", "\"",
      ":", " ", "[", "{", "\"", "t", "e", "s", "t", "\"", ":", " ", "\"", ".", ".", ".", "\"", ",",
      " ", "\"", "c", "r", "i", "t", "e", "r", "i", "a", "\"", ":", " ", "\"", ".", ".", ".", "\"",
      ",", " ", "\"", "e", "x", "p", "e", "c", "t", "e", "d", "_", "r", "e", "s", "u", "l", "t",
      "\"", ":", " ", "\"", ".", ".", ".", "\"", "}", "]", ",", "\n", " ", " ", " ", " ", "\"",
      "s", "e", "c", "u", "r", "i", "t", "y", "_", "t", "e", "s", "t", "s", "\"", ":", " ", "[",
      "{", "\"", "t", "e", "s", "t", "\"", ":", " ", "\"", ".", ".", ".", "\"", ",", " ", "\"",
      "d", "e", "s", "c", "r", "i", "p", "t", "i", "o", "n", "\"", ":", " ", "\"", ".", ".", ".",
      "\"", "}", "]", "\n", "}">>

\* manual_prompt, src/final.py:270-284
text_manual_prompt(user_input) ==
    <<"C", "r", "e", "a", "t", "e", " ", "c", "o", "m", "p", "r", "e", "h", "e", "n", "s", "i",
      "v", "e", " ", "u", "s", "e", "r", " ", "m", "a", "n", "u", "a", "l", " ", "c", "o", "n",
      "t", "e", "n", "t", ":", "\n", "\n", "P", "r", "o", "j", "e", "c", "t", " ", "D", "e", "s",
      "c", "r", "i", "p", "t", "i", "o", "n", ":", "\n">>
    \o
    user_input
    \o
    <<"\n", "\n", "P", "r", "o", "v", "i", "d", "e", " ", "i", "n", " ", "J", "S", "O", "N", ":",
      "\n", "{", "\n", " ", " ", " ", " ", "\"", "i", "n", "t", "r", "o", "d", "u", "c", "t", "i",
      "o", "n", "\"", ":", " ", "\"", ".", ".", ".", "\"", ",", "\n", " ", " ", " ", " ", "\"",
      "g", "e", "t", "t", "i", "n", "g", "_", "s", "t", "a", "r", "t", "e", "d", "\"", ":", " ",
      "[", "{", "\"", "s", "t", "e", "p", "\"", ":", " ", "\"", ".", ".", ".", "\"", ",", " ",
      "\"", "d", "e", "s", "c", "r", "i", "p", "t", "i", "o", "n", "\"", ":", " ", "\"", ".", ".",
      ".", "\"", ",", " ", "\"", "s", "c", "r", "e", "e", "n", "s", "h", "o", "t", "_", "n", "o",
      "t", "e", "\"", ":", " ", "\"", ".", ".", ".", "\"", "}", "]", ",", "\n", " ", " ", " ", " ",
      "\"", "f", "e", "a", "t", "u", "r", "e", "s", "\"", ":", " ", "[", "{", "\"", "f", "e", "a",
      "t", "u", "r", "e", "\"", ":", " ", "\"", ".", ".", ".", "\"", ",", " ", "\"", "d", "e", "s",
      "c", "r", "i", "p", "t", "i", "o", "n", "\"", ":", " ", "\"", ".", ".", ".", "\"", ",", " ",
      "\"", "h", "o", "w", "_", "t", "o", "_", "u", "s", "e", "\"", ":", " ", "[", "\"", ".", ".",
      ".", "\"", "]", ",", " ", "\"", "t", "i", "p", "s", "\"", ":", " ", "[", "\"", ".", ".", ".",
      "\"", "]", "}", "]", ",", "\n", " ", " ", " ", " ", "\"", "c", "o", "m", "m", "o", "n", "_",
      "t", "a", "s", "k", "s", "\"", ":", " ", "[", "{", "\"", "t", "a", "s", "k", "\"", ":", " ",
      "\"", ".", ".", ".", "\"", ",", " ", "\"", "s", "t", "e", "p", "s", "\"", ":", " ", "[",
      "\"", ".", ".", ".", "\"", "]", ",", " ", "\"", "n", "o", "t", "e", "s", "\"", ":", " ", "[",
      "\"", ".", ".", ".", "\"", "]", "}", "]", ",", "\n", " ", " ", " ", " ", "\"", "t", "r", "o",
      "u", "b", "l", "e", "s", "h", "o", "o", "t", "i", "n", "g", "\"", ":", " ", "[", "{", "\"",
      "i", "s", "s", "u", "e", "\"", ":", " ", "\"", ".", ".", ".", "\"", ",", " ", "\"", "s", "o",
      "l", "u", "t", "i", "o", "n", "\"", ":", " ", "\"", ".", ".", ".", "\"", ",", " ", "\"", "p",
      "r", "e", "v", "e", "n", "t", "i", "o", "n", "\"", ":", " ", "\"", ".", ".", ".", "\"", "}",
      "]", ",", "\n", " ", " ", " ", " ", "\"", "f", "a", "q", "\"", ":", " ", "[", "{", "\"", "q",
      "u", "e", "s", "t", "i", "o", "n", "\"", ":", " ", "\"", ".", ".", ".", "\"", ",", " ", "\"",
      "a", "n", "s", "w", "e", "r", "\"", ":", " ", "\"", ".", ".", ".", "\"", "}", "]", ",", "\n",
      " ", " ", " ", " ", "\"", "s", "u", "p", "p", "o", "r", "t", "_", "i", "n", "f", "o", "\"",
      ":", " ", "{", "\"", "c", "o", "n", "t", "a", "c", "t", "\"", ":", " ", "\"", ".", ".", ".",
      "\"", ",", " ", "\"", "h", "o", "u", "r", "s", "\"", ":", " ", "\"", ".", ".", ".", "\"",
      ",", " ", "\"", "r", "e", "s", "o", "u", "r", "c", "e", "s", "\"", ":", " ", "[", "\"", ".",
      ".", ".", "\"", "]", "}", "\n", "}">>

\* business_prompt, src/final.py:313-334
code_business_prompt(file_contents) ==
    <<"A", "n", "a", "l", "y", "z", "e", " ", "t", "h", "i", "s", " ", "c", "o", "d", "e", "b",
      "a", "s", "e", " ", "f", "r", "o", "m", " ", "a", " ", "B", "U", "S", "I", "N", "E", "S",
      "S", " ", "P", "E", "R", "S", "P", "E", "C", "T", "I", "V", "E", " ", "a", "n", "d", " ",
      "p", "r", "o", "v", "i", "d", "e", ":", "\n", "1", ".", " ", "M", "a", "i", "n", " ", "b",
      "u", "s", "i", "n", "e", "s", "s", " ", "p", "r", "o", "b", "l", "e", "m", " ", "i", "t",
      " ", "s", "o", "l", "v", "e", "s", "\n", "2", ".", " ", "K", "e", "y", " ", "v", "a", "l",
      "u", "e", " ", "p", "r", "o", "p", "o", "s", "i", "t", "i", "o", "n", "s", "\n", "3", ".",
      " ", "T", "a", "r", "g", "e", "t", " ", "u", "s", "e", "r", "s", "/", "s", "t", "a", "k",
      "e", "h", "o", "l", "d", "e", "r", "s", "\n", "4", ".", " ", "B", "u", "s", "i", "n", "e",
      "s", "s", " ", "b", "e", "n", "e", "f", "i", "t", "s", " ", "a", "n", "d", " ", "R", "O",
      "I", " ", "p", "o", "t", "e", "n", "t", "i", "a", "l", "\n", "5", ".", " ", "C", "o", "m",
      "p", "e", "t", "i", "t", "i", "v", "e", " ", "a", "d", "v", "a", "n", "t", "a", "g", "e",
      "s", "\n", "\n", "C", "o", "d", "e", "b", "a", "s", "e", " ", "s", "t", "r", "u", "c", "t",
      "u", "r", "e", ":", "\n">>
    \o
    file_summary(file_contents)
    \o
    <<"\n", "\n", "S", "a", "m", "p", "l", "e", " ", "f", "i", "l", "e", "s", ":", "\n">>
    \o
    _format_files_for_prompt(limited_contents(file_contents), 3)
    \o
    <<"\n", "\n", "s", "t", "r", "i", "c", "t", "l", "y", " ", "R", "e", "s", "p", "o", "n", "d",
      " ", "i", "n", " ", "J", "S", "O", "N", " ", "f", "o", "r", "m", "a", "t", " ", "w", "i",
      "t", "h", "o", "u", "t", " ", "a", "n", "y", " ", "m", "a", "r", "k", "i", "n", "g", " ",
      "o", "r", " ", "e", "x", "p", "l", "a", "n", "a", "t", "i", "o", "n", "s", ":", "\n", "{",
      "\n", " ", " ", " ", " ", "\"", "b", "u", "s", "i", "n", "e", "s", "s", "_", "p", "r", "o",
      "b", "l", "e", "m", "\"", ":", " ", "\"", ".", ".", ".", "\"", ",", "\n", " ", " ", " ", " ",
      "\"", "v", "a", "l", "u", "e", "_", "p", "r", "o", "p", "o", "s", "i", "t", "i", "o", "n",
      "s", "\"", ":", " ", "[", "\"", ".", ".", ".", "\"", "]", ",", "\n", " ", " ", " ", " ",
      "\"", "t", "a", "r", "g", "e", "t", "_", "u", "s", "e", "r", "s", "\"", ":", " ", "[", "\"",
      ".", ".", ".", "\"", "]", ",", "\n", " ", " ", " ", " ", "\"", "b", "u", "s", "i", "n", "e",
      "s", "s", "_", "b", "e", "n", "e", "f", "i", "t", "s", "\"", ":", " ", "[", "\"", ".", ".",
      ".", "\"", "]", ",", "\n", " ", " ", " ", " ", "\"", "c", "o", "m", "p", "e", "t", "i", "t",
      "i", "v", "e", "_", "a", "d", "v", "a", "n", "t", "a", "g", "e", "s", "\"", ":", " ", "[",
      "\"", ".", ".", ".", "\"", "]", ",", "\n", " ", " ", " ", " ", "\"", "e", "x", "e", "c", "u",
      "t", "i", "v", "e", "_", "s", "u", "m", "m", "a", "r", "y", "\"", ":", " ", "\"", ".", ".",
      ".", "\"", "\n", "}">>

\* app_arch_prompt, src/final.py:339-357
code_app_arch_prompt(file_contents) ==
    <<"A", "n", "a", "l", "y", "z", "e", " ", "a", "p", "p", "l", "i", "c", "a", "t", "i", "o",
      "n", " ", "a", "r", "c", "h", "i", "t", "e", "c", "t", "u", "r", "e", " ", "f", "r", "o",
      "m", " ", "c", "o", "d", "e", "b", "a", "s", "e", ":", "\n", "1", ".", " ", "A", "r", "c",
      "h", "i", "t", "e", "c", "t", "u", "r", "e", " ", "l", "a", "y", "e", "r", "s", " ", "a",
      "n", "d", " ", "t", "i", "e", "r", "s", "\n", "2", ".", " ", "A", "p", "p", "l", "i", "c",
      "a", "t", "i", "o", "n", " ", "c", "o", "m", "p", "o", "n", "e", "n", "t", "s", " ", "a",
      "n", "d", " ", "s", "e", "r", "v", "i", "c", "e", "s", "\n", "3", ".", " ", "C", "o", "m",
      "m", "u", "n", "i", "c", "a", "t", "i", "o", "n", " ", "p", "a", "t", "t", "e", "r", "n",
      "s", "\n", "4", ".", " ", "D", "e", "p", "l", "o", "y", "m", "e", "n", "t", " ", "a", "r",
      "c", "h", "i", "t", "e", "c", "t", "u", "r", "e", "\n", "5", ".", " ", "S", "c", "a", "l",
      "a", "b", "i", "l", "i", "t", "y", " ", "a", "n", "d", " ", "p", "e", "r", "f", "o", "r",
      "m", "a", "n", "c", "e", " ", "d", "e", "s", "i", "g", "n", "\n", "\n", "F", "i", "l", "e",
      "s", ":", "\n">>
    \o
    _format_files_for_prompt(limited_contents(file_contents), 5)
    \o
    <<"\n", "\n", "s", "t", "r", "i", "c", "t", "l", "y", " ", "R", "e", "s", "p", "o", "n", "d",
      " ", "i", "n", " ", "J", "S", "O", "N", " ", "f", "o", "r", "m", "a", "t", " ", "w", "i",
      "t", "h", "o", "u", "t", " ", "a", "n", "y", " ", "m", "a", "r", "k", "i", "n", "g", " ",
      "o", "r", " ", "e", "x", "p", "l", "a", "n", "a", "t", "i", "o", "n", "s", ":", "\n", "{",
      "\n", " ", " ", " ", " ", "\"", "a", "r", "c", "h", "i", "t", "e", "c", "t", "u", "r", "e",
      "_", "l", "a", "y", "e", "r", "s", "\"", ":", " ", "[", "{", "\"", "n", "a", "m", "e", "\"",
      ":", " ", "\"", ".", ".", ".", "\"", ",", " ", "\"", "d", "e", "s", "c", "r", "i", "p", "t",
      "i", "o", "n", "\"", ":", " ", "\"", ".", ".", ".", "\"", ",", " ", "\"", "c", "o", "m", "p",
      "o", "n", "e", "n", "t", "s", "\"", ":", " ", "[", "\"", ".", ".", ".", "\"", "]", "}", "]",
      ",", "\n", " ", " ", " ", " ", "\"", "s", "e", "r", "v", "i", "c", "e", "s", "\"", ":", " ",
      "[", "{", "\"", "n", "a", "m", "e", "\"", ":", " ", "\"", ".", ".", ".", "\"", ",", " ",
      "\"", "t", "y", "p", "e", "\"", ":", " ", "\"", ".", ".", ".", "\"", ",", " ", "\"", "r",
      "e", "s", "p", "o", "n", "s", "i", "b", "i", "l", "i", "t", "y", "\"", ":", " ", "\"", ".",
      ".", ".", "\"", ",", " ", "\"", "t", "e", "c", "h", "n", "o", "l", "o", "g", "i", "e", "s",
      "\"", ":", " ", "[", "\"", ".", ".", ".", "\"", "]", "}", "]", ",", "\n", " ", " ", " ", " ",
      "\"", "c", "o", "m", "m", "u", "n", "i", "c", "a", "t", "i", "o", "n", "_", "p", "a", "t",
      "t", "e", "r", "n", "s", "\"", ":", " ", "[", "\"", ".", ".", ".", "\"", "]", ",", "\n", " ",
      " ", " ", " ", "\"", "d", "e", "p", "l", "o", "y", "m", "e", "n", "t", "_", "m", "o", "d",
      "e", "l", "\"", ":", " ", "\"", ".", ".", ".", "\"", ",", "\n", " ", " ", " ", " ", "\"",
      "s", "c", "a", "l", "a", "b", "i", "l", "i", "t", "y", "_", "a", "p", "p", "r", "o", "a",
      "c", "h", "\"", ":", " ", "\"", ".", ".", ".", "\"", ",", "\n", " ", " ", " ", " ", "\"",
      "p", "e", "r", "f", "o", "r", "m", "a", "n", "c", "e", "_", "o", "p", "t", "i", "m", "i",
      "z", "a", "t", "i", "o", "n", "\"", ":", " ", "[", "\"", ".", ".", ".", "\"", "]", "\n", "}">>

\* tech_arch_prompt, src/final.py:362-382
code_tech_arch_prompt(file_contents) ==
    <<"A", "n", "a", "l", "y", "z", "e", " ", "t", "e", "c", "h", "n", "i", "c", "a", "l", " ",
      "a", "r", "c", "h", "i", "t", "e", "c", "t", "u", "r", "e", " ", "f", "r", "o", "m", " ",
      "c", "o", "d", "e", "b", "a", "s", "e", ":", "\n", "1", ".", " ", "T", "e", "c", "h", "n",
      "o", "l", "o", "g", "y", " ", "s", "t", "a", "c", "k", " ", "(", "f", "r", "o", "n", "t",
      "e", "n", "d", ",", " ", "b", "a", "c", "k", "e", "n", "d", ",", " ", "d", "a", "t", "a",
      "b", "a", "s", "e", ",", " ", "i", "n", "f", "r", "a", "s", "t", "r", "u", "c", "t", "u",
      "r", "e", ")", "\n", "2", ".", " ", "I", "n", "t", "e", "g", "r", "a", "t", "i", "o", "n",
      " ", "a", "r", "c", "h", "i", "t", "e", "c", "t", "u", "r", "e", "\n", "3", ".", " ", "S",
      "e", "c", "u", "r", "i", "t", "y", " ", "a", "r", "c", "h", "i", "t", "e", "c", "t", "u",
      "r", "e", "\n", "4", ".", " ", "D", "e", "v", "O", "p", "s", " ", "a", "n", "d", " ", "C",
      "I", "/", "C", "D", " ", "p", "i", "p", "e", "l", "i", "n", "e", "\n", "5", ".", " ", "M",
      "o", "n", "i", "t", "o", "r", "i", "n", "g", " ", "a", "n", "d", " ", "l", "o", "g", "g",
      "i", "n", "g", "\n", "\n", "F", "i", "l", "e", "s", ":", "\n">>
    \o
    _format_files_for_prompt(limited_contents(file_contents), 5)
    \o
    <<"\n", "\n", "s", "t", "r", "i", "c", "t", "l", "y", " ", "R", "e", "s", "p", "o", "n", "d",
      " ", "i", "n", " ", "J", "S", "O", "N", " ", "f", "o", "r", "m", "a", "t", " ", "w", "i",
      "t", "h", "o", "u", "t", " ", "a", "n", "y", " ", "m", "a", "r", "k", "i", "n", "g", " ",
      "o", "r", " ", "e", "x", "p", "l", "a", "n", "a", "t", "i", "o", "n", "s", ":", "\n", "{",
      "\n", " ", " ", " ", " ", "\"", "f", "r", "o", "n", "t", "e", "n", "d", "_", "s", "t", "a",
      "c", "k", "\"", ":", " ", "[", "{", "\"", "t", "e", "c", "h", "n", "o", "l", "o", "g", "y",
      "\"", ":", " ", "\"", ".", ".", ".", "\"", ",", " ", "\"", "p", "u", "r", "p", "o", "s", "e",
      "\"", ":", " ", "\"", ".", ".", ".", "\"", "}", "]", ",", "\n", " ", " ", " ", " ", "\"",
      "b", "a", "c", "k", "e", "n", "d", "_", "s", "t", "a", "c", "k", "\"", ":", " ", "[", "{",
      "\"", "t", "e", "c", "h", "n", "o", "l", "o", "g", "y", "\"", ":", " ", "\"", ".", ".", ".",
      "\"", ",", " ", "\"", "p", "u", "r", "p", "o", "s", "e", "\"", ":", " ", "\"", ".", ".", ".",
      "\"", "}", "]", ",", "\n", " ", " ", " ", " ", "\"", "d", "a", "t", "a", "b", "a", "s", "e",
      "_", "s", "t", "a", "c", "k", "\"", ":", " ", "[", "{", "\"", "t", "e", "c", "h", "n", "o",
      "l", "o", "g", "y", "\"", ":", " ", "\"", ".", ".", ".", "\"", ",", " ", "\"", "p", "u", "r",
      "p", "o", "s", "e", "\"", ":", " ", "\"", ".", ".", ".", "\"", "}", "]", ",", "\n", " ", " ",
      " ", " ", "\"", "i", "n", "f", "r", "a", "s", "t", "r", "u", "c", "t", "u", "r", "e", "\"",
      ":", " ", "[", "{", "\"", "c", "o", "m", "p", "o", "n", "e", "n", "t", "\"", ":", " ", "\"",
      ".", ".", ".", "\"", ",", " ", "\"", "t", "e", "c", "h", "n", "o", "l", "o", "g", "y", "\"",
      ":", " ", "\"", ".", ".", ".", "\"", ",", " ", "\"", "p", "u", "r", "p", "o", "s", "e", "\"",
      ":", " ", "\"", ".", ".", ".", "\"", "}", "]", ",", "\n", " ", " ", " ", " ", "\"", "i", "n",
      "t", "e", "g", "r", "a", "t", "i", "o", "n", "_", "p", "o", "i", "n", "t", "s", "\"", ":",
      " ", "[", "{", "\"", "s", "y", "s", "t", "e", "m", "\"", ":", " ", "\"", ".", ".", ".", "\"",
      ",", " ", "\"", "m", "e", "t", "h", "o", "d", "\"", ":", " ", "\"", ".", ".", ".", "\"", ",",
      " ", "\"", "p", "r", "o", "t", "o", "c", "o", "l", "\"", ":", " ", "\"", ".", ".", ".", "\"",
      "}", "]", ",", "\n", " ", " ", " ", " ", "\"", "s", "e", "c", "u", "r", "i", "t", "y", "_",
      "l", "a", "y", "e", "r", "s", "\"", ":", " ", "[", "\"", ".", ".", ".", "\"", "]", ",", "\n",
      " ", " ", " ", " ", "\"", "c", "i", "c", "d", "_", "p", "i", "p", "e", "l", "i", "n", "e",
      "\"", ":", " ", "[", "\"", ".", ".", ".", "\"", "]", ",", "\n", " ", " ", " ", " ", "\"",
      "m", "o", "n", "i", "t", "o", "r", "i", "n", "g", "_", "t", "o", "o", "l", "s", "\"", ":",
      " ", "[", "\"", ".", ".", ".", "\"", "]", "\n", "}">>

\* db_prompt, src/final.py:387-389
code_db_prompt(file_contents) ==
    <<"A", "n", "a", "l", "y", "z", "e", " ", "d", "a", "t", "a", "b", "a", "s", "e", " ", "s",
      "c", "h", "e", "m", "a", " ", "f", "r", "o", "m", " ", "c", "o", "d", "e", "b", "a", "s",
      "e", ":", "\n", "F", "i", "l", "e", "s", ":", " ">>
    \o
    _format_files_for_prompt(limited_contents(file_contents), 5)
    \o
    <<"\n", "P", "r", "o", "v", "i", "d", "e", " ", "i", "n", " ", "J", "S", "O", "N", ":", " ",
      "{", "\"", "d", "a", "t", "a", "b", "a", "s", "e", "_", "t", "y", "p", "e", "\"", ":", " ",
      "\"", ".", ".", ".", "\"", ",", " ", "\"", "e", "n", "t", "i", "t", "i", "e", "s", "\"", ":",
      " ", "[", "{", "\"", "n", "a", "m", "e", "\"", ":", " ", "\"", ".", ".", ".", "\"", ",", " ",
      "\"", "d", "e", "s", "c", "r", "i", "p", "t", "i", "o", "n", "\"", ":", " ", "\"", ".", ".",
      ".", "\"", ",", " ", "\"", "a", "t", "t", "r", "i", "b", "u", "t", "e", "s", "\"", ":", " ",
      "[", "{", "\"", "n", "a", "m", "e", "\"", ":", " ", "\"", ".", ".", ".", "\"", ",", " ",
      "\"", "t", "y", "p", "e", "\"", ":", " ", "\"", ".", ".", ".", "\"", ",", " ", "\"", "c",
      "o", "n", "s", "t", "r", "a", "i", "n", "t", "s", "\"", ":", " ", "\"", ".", ".", ".", "\"",
      "}", "]", ",", " ", "\"", "p", "r", "i", "m", "a", "r", "y", "_", "k", "e", "y", "\"", ":",
      " ", "\"", ".", ".", ".", "\"", ",", " ", "\"", "i", "n", "d", "e", "x", "e", "s", "\"", ":",
      " ", "[", "\"", ".", ".", ".", "\"", "]", "}", "]", ",", " ", "\"", "r", "e", "l", "a", "t",
      "i", "o", "n", "s", "h", "i", "p", "s", "\"", ":", " ", "[", "{", "\"", "f", "r", "o", "m",
      "\"", ":", " ", "\"", ".", ".", ".", "\"", ",", " ", "\"", "t", "o", "\"", ":", " ", "\"",
      ".", ".", ".", "\"", ",", " ", "\"", "t", "y", "p", "e", "\"", ":", " ", "\"", "o", "n", "e",
      "-", "t", "o", "-", "m", "a", "n", "y", "\"", ",", " ", "\"", "d", "e", "s", "c", "r", "i",
      "p", "t", "i", "o", "n", "\"", ":", " ", "\"", ".", ".", ".", "\"", "}", "]", ",", " ", "\"",
      "o", "p", "t", "i", "m", "i", "z", "a", "t", "i", "o", "n", "_", "s", "t", "r", "a", "t",
      "e", "g", "i", "e", "s", "\"", ":", " ", "[", "\"", ".", ".", ".", "\"", "]", ",", " ", "\"",
      "b", "a", "c", "k", "u", "p", "_", "s", "t", "r", "a", "t", "e", "g", "y", "\"", ":", " ",
      "\"", ".", ".", ".", "\"", ",", " ", "\"", "d", "a", "t", "a", "_", "s", "e", "c", "u", "r",
      "i", "t", "y", "\"", ":", " ", "[", "\"", ".", ".", ".", "\"", "]", "}">>

\* uiux_prompt, src/final.py:394-396
code_uiux_prompt(file_contents) ==
    <<"A", "n", "a", "l", "y", "z", "e", " ", "U", "I", "/", "U", "X", " ", "d", "e", "s", "i",
      "g", "n", " ", "f", "r", "o", "m", " ", "c", "o", "d", "e", "b", "a", "s", "e", ":", "\n",
      "F", "i", "l", "e", "s", ":", " ">>
    \o
    _format_files_for_prompt(limited_contents(file_contents), 5)
    \o
    <<"\n", "P", "r", "o", "v", "i", "d", "e", " ", "i", "n", " ", "J", "S", "O", "N", ":", " ",
      "{", "\"", "u", "s", "e", "r", "_", "p", "e", "r", "s", "o", "n", "a", "s", "\"", ":", " ",
      "[", "{", "\"", "n", "a", "m", "e", "\"", ":", " ", "\"", ".", ".", ".", "\"", ",", " ",
      "\"", "r", "o", "l", "e", "\"", ":", " ", "\"", ".", ".", ".", "\"", ",", " ", "\"", "g",
      "o", "a", "l", "s", "\"", ":", " ", "[", "\"", ".", ".", ".", "\"", "]", ",", " ", "\"", "p",
      "a", "i", "n", "_", "p", "o", "i", "n", "t", "s", "\"", ":", " ", "[", "\"", ".", ".", ".",
      "\"", "]", "}", "]", ",", " ", "\"", "u", "s", "e", "r", "_", "j", "o", "u", "r", "n", "e",
      "y", "s", "\"", ":", " ", "[", "{", "\"", "p", "e", "r", "s", "o", "n", "a", "\"", ":", " ",
      "\"", ".", ".", ".", "\"", ",", " ", "\"", "j", "o", "u", "r", "n", "e", "y", "\"", ":", " ",
      "\"", ".", ".", ".", "\"", ",", " ", "\"", "s", "t", "e", "p", "s", "\"", ":", " ", "[",
      "\"", ".", ".", ".", "\"", "]", ",", " ", "\"", "t", "o", "u", "c", "h", "p", "o", "i", "n",
      "t", "s", "\"", ":", " ", "[", "\"", ".", ".", ".", "\"", "]", "}", "]", ",", " ", "\"", "k",
      "e", "y", "_", "s", "c", "r", "e", "e", "n", "s", "\"", ":", " ", "[", "{", "\"", "s", "c",
      "r", "e", "e", "n", "_", "n", "a", "m", "e", "\"", ":", " ", "\"", ".", ".", ".", "\"", ",",
      " ", "\"", "p", "u", "r", "p", "o", "s", "e", "\"", ":", " ", "\"", ".", ".", ".", "\"", ",",
      " ", "\"", "c", "o", "m", "p", "o", "n", "e", "n", "t", "s", "\"", ":", " ", "[", "\"", ".",
      ".", ".", "\"", "]", ",", " ", "\"", "i", "n", "t", "e", "r", "a", "c", "t", "i", "o", "n",
      "s", "\"", ":", " ", "[", "\"", ".", ".", ".", "\"", "]", "}", "]", ",", " ", "\"", "d", "e",
      "s", "i", "g", "n", "_", "s", "y", "s", "t", "e", "m", "\"", ":", " ", "{", "\"", "c", "o",
      "l", "o", "r", "s", "\"", ":", " ", "[", "\"", ".", ".", ".", "\"", "]", ",", " ", "\"", "t",
      "y", "p", "o", "g", "r", "a", "p", "h", "y", "\"", ":", " ", "[", "\"", ".", ".", ".", "\"",
      "]", ",", " ", "\"", "c", "o", "m", "p", "o", "n", "e", "n", "t", "s", "\"", ":", " ", "[",
      "\"", ".", ".", ".", "\"", "]", "}", ",", " ", "\"", "a", "c", "c", "e", "s", "s", "i", "b",
      "i", "l", "i", "t", "y", "_", "f", "e", "a", "t", "u", "r", "e", "s", "\"", ":", " ", "[",
      "\"", ".", ".", ".", "\"", "]", ",", " ", "\"", "r", "e", "s", "p", "o", "n", "s", "i", "v",
      "e", "_", "b", "r", "e", "a", "k", "p", "o", "i", "n", "t", "s", "\"", ":", " ", "[", "\"",
      ".", ".", ".", "\"", "]", "}">>

\* frd_prompt, src/final.py:401-403
code_frd_prompt(file_contents) ==
    <<"C", "r", "e", "a", "t", "e", " ", "F", "R", "D", " ", "f", "r", "o", "m", " ", "c", "o",
      "d", "e", "b", "a", "s", "e", " ", "a", "n", "a", "l", "y", "s", "i", "s", ":", "\n", "F",
      "i", "l", "e", "s", ":", " ">>
    \o
    _format_files_for_prompt(limited_contents(file_contents), 3)
    \o
    <<"\n", "P", "r", "o", "v", "i", "d", "e", " ", "i", "n", " ", "J", "S", "O", "N", ":", " ",
      "{", "\"", "f", "u", "n", "c", "t", "i", "o", "n", "a", "l", "_", "r", "e", "q", "u", "i",
      "r", "e", "m", "e", "n", "t", "s", "\"", ":", " ", "[", "{", "\"", "i", "d", "\"", ":", " ",
      "\"", "F", "R", "-", "0", "0", "1", "\"", ",", " ", "\"", "r", "e", "q", "u", "i", "r", "e",
      "m", "e", "n", "t", "\"", ":", " ", "\"", ".", ".", ".", "\"", ",", " ", "\"", "p", "r", "i",
      "o", "r", "i", "t", "y", "\"", ":", " ", "\"", "H", "i", "g", "h", "\"", ",", " ", "\"", "c",
      "a", "t", "e", "g", "o", "r", "y", "\"", ":", " ", "\"", ".", ".", ".", "\"", ",", " ", "\"",
      "d", "e", "s", "c", "r", "i", "p", "t", "i", "o", "n", "\"", ":", " ", "\"", ".", ".", ".",
      "\"", ",", " ", "\"", "a", "c", "c", "e", "p", "t", "a", "n", "c", "e", "_", "c", "r", "i",
      "t", "e", "r", "i", "a", "\"", ":", " ", "[", "\"", ".", ".", ".", "\"", "]", "}", "]", ",",
      " ", "\"", "u", "s", "e", "_", "c", "a", "s", "e", "s", "\"", ":", " ", "[", "{", "\"", "i",
      "d", "\"", ":", " ", "\"", "U", "C", "-", "0", "0", "1", "\"", ",", " ", "\"", "t", "i", "t",
      "l", "e", "\"", ":", " ", "\"", ".", ".", ".", "\"", ",", " ", "\"", "a", "c", "t", "o", "r",
      "\"", ":", " ", "\"", ".", ".", ".", "\"", ",", " ", "\"", "d", "e", "s", "c", "r", "i", "p",
      "t", "i", "o", "n", "\"", ":", " ", "\"", ".", ".", ".", "\"", ",", " ", "\"", "p", "r", "e",
      "c", "o", "n", "d", "i", "t", "i", "o", "n", "s", "\"", ":", " ", "[", "\"", ".", ".", ".",
      "\"", "]", ",", " ", "\"", "s", "t", "e", "p", "s", "\"", ":", " ", "[", "\"", ".", ".", ".",
      "\"", "]", ",", " ", "\"", "p", "o", "s", "t", "c", "o", "n", "d", "i", "t", "i", "o", "n",
      "s", "\"", ":", " ", "[", "\"", ".", ".", ".", "\"", "]", ",", " ", "\"", "a", "l", "t", "e",
      "r", "n", "a", "t", "e", "_", "f", "l", "o", "w", "s", "\"", ":", " ", "[", "\"", ".", ".",
      ".", "\"", "]", "}", "]", ",", " ", "\"", "b", "u", "s", "i", "n", "e", "s", "s", "_", "r",
      "u", "l", "e", "s", "\"", ":", " ", "[", "{", "\"", "r", "u", "l", "e", "_", "i", "d", "\"",
      ":", " ", "\"", "B", "R", "-", "0", "0", "1", "\"", ",", " ", "\"", "r", "u", "l", "e", "\"",
      ":", " ", "\"", ".", ".", ".", "\"", ",", " ", "\"", "r", "a", "t", "i", "o", "n", "a", "l",
      "e", "\"", ":", " ", "\"", ".", ".", ".", "\"", "}", "]", ",", " ", "\"", "d", "a", "t", "a",
      "_", "r", "e", "q", "u", "i", "r", "e", "m", "e", "n", "t", "s", "\"", ":", " ", "[", "{",
      "\"", "e", "n", "t", "i", "t", "y", "\"", ":", " ", "\"", ".", ".", ".", "\"", ",", " ",
      "\"", "r", "e", "q", "u", "i", "r", "e", "m", "e", "n", "t", "s", "\"", ":", " ", "[", "\"",
      ".", ".", ".", "\"", "]", "}", "]", ",", " ", "\"", "i", "n", "t", "e", "r", "f", "a", "c",
      "e", "_", "r", "e", "q", "u", "i", "r", "e", "m", "e", "n", "t", "s", "\"", ":", " ", "[",
      "{", "\"", "i", "n", "t", "e", "r", "f", "a", "c", "e", "\"", ":", " ", "\"", ".", ".", ".",
      "\"", ",", " ", "\"", "t", "y", "p", "e", "\"", ":", " ", "\"", ".", ".", ".", "\"", ",",
      " ", "\"", "r", "e", "q", "u", "i", "r", "e", "m", "e", "n", "t", "s", "\"", ":", " ", "[",
      "\"", ".", ".", ".", "\"", "]", "}", "]", ",", " ", "\"", "n", "o", "n", "_", "f", "u", "n",
      "c", "t", "i", "o", "n", "a", "l", "_", "r", "e", "q", "u", "i", "r", "e", "m", "e", "n",
      "t", "s", "\"", ":", " ", "[", "{", "\"", "c", "a", "t", "e", "g", "o", "r", "y", "\"", ":",
      " ", "\"", "P", "e", "r", "f", "o", "r", "m", "a", "n", "c", "e", "\"", ",", " ", "\"", "r",
      "e", "q", "u", "i", "r", "e", "m", "e", "n", "t", "\"", ":", " ", "\"", ".", ".", ".", "\"",
      ",", " ", "\"", "m", "e", "t", "r", "i", "c", "\"", ":", " ", "\"", ".", ".", ".", "\"", "}",
      "]", "}">>

\* test_prompt, src/final.py:408-410
code_test_prompt(file_contents) ==
    <<"C", "r", "e", "a", "t", "e", " ", "t", "e", "s", "t", " ", "s", "c", "r", "i", "p", "t",
      "s", " ", "b", "a", "s", "e", "d", " ", "o", "n", " ", "c", "o", "d", "e", "b", "a", "s",
      "e", ":", "\n", "F", "i", "l", "e", "s", ":", " ">>
    \o
    _format_files_for_prompt(limited_contents(file_contents), 3)
    \o
    <<"\n", "P", "r", "o", "v", "i", "d", "e", " ", "i", "n", " ", "J", "S", "O", "N", ":", " ",
      "{", "\"", "t", "e", "s", "t", "_", "s", "t", "r", "a", "t", "e", "g", "y", "\"", ":", " ",
      "\"", ".", ".", ".", "\"", ",", " ", "\"", "t", "e", "s", "t", "_", "s", "c", "e", "n", "a",
      "r", "i", "o", "s", "\"", ":", " ", "[", "{", "\"", "i", "d", "\"", ":", " ", "\"", "T", "S",
      "-", "0", "0", "1", "\"", ",", " ", "\"", "s", "c", "e", "n", "a", "r", "i", "o", "\"", ":",
      " ", "\"", ".", ".", ".", "\"", ",", " ", "\"", "t", "y", "p", "e", "\"", ":", " ", "\"",
      "F", "u", "n", "c", "t", "i", "o", "n", "a", "l", "\"", ",", " ", "\"", "p", "r", "i", "o",
      "r", "i", "t", "y", "\"", ":", " ", "\"", "H", "i", "g", "h", "\"", "}", "]", ",", " ", "\"",
      "t", "e", "s", "t", "_", "c", "a", "s", "e", "s", "\"", ":", " ", "[", "{", "\"", "i", "d",
      "\"", ":", " ", "\"", "T", "C", "-", "0", "0", "1", "\"", ",", " ", "\"", "s", "c", "e", "n",
      "a", "r", "i", "o", "_", "i", "d", "\"", ":", " ", "\"", "T", "S", "-", "0", "0", "1", "\"",
      ",", " ", "\"", "t", "i", "t", "l", "e", "\"", ":", " ", "\"", ".", ".", ".", "\"", ",", " ",
      "\"", "p", "r", "e", "c", "o", "n", "d", "i", "t", "i", "o", "n", "s", "\"", ":", " ", "[",
      "\"", ".", ".", ".", "\"", "]", ",", " ", "\"", "s", "t", "e", "p", "s", "\"", ":", " ", "[",
      "\"", ".", ".", ".", "\"", "]", ",", " ", "\"", "e", "x", "p", "e", "c", "t", "e", "d", "_",
      "r", "e", "s", "u", "l", "t", "s", "\"", ":", " ", "[", "\"", ".", ".", ".", "\"", "]", ",",
      " ", "\"", "t", "e", "s", "t", "_", "d", "a", "t", "a", "\"", ":", " ", "\"", ".", ".", ".",
      "\"", "}", "]", ",", " ", "\"", "a", "u", "t", "o", "m", "a", "t", "i", "o", "n", "_", "c",
      "a", "n", "d", "i", "d", "a", "t", "e", "s", "\"", ":", " ", "[", "\"", ".", ".", ".", "\"",
      "]", ",", " ", "\"", "p", "e", "r", "f", "o", "r", "m", "a", "n", "c", "e", "_", "t", "e",
      "s", "t", "s", "\"", ":", " ", "[", "{", "\"", "t", "e", "s", "t", "\"", ":", " ", "\"", ".",
      ".", ".", "\"", ",", " ", "\"", "c", "r", "i", "t", "e", "r", "i", "a", "\"", ":", " ", "\"",
      ".", ".", ".", "\"", ",", " ", "\"", "e", "x", "p", "e", "c", "t", "e", "d", "_", "r", "e",
      "s", "u", "l", "t", "\"", ":", " ", "\"", ".", ".", ".", "\"", "}", "]", ",", " ", "\"", "s",
      "e", "c", "u", "r", "i", "t", "y", "_", "t", "e", "s", "t", "s", "\"", ":", " ", "[", "{",
      "\"", "t", "e", "s", "t", "\"", ":", " ", "\"", ".", ".", ".", "\"", ",", " ", "\"", "d",
      "e", "s", "c", "r", "i", "p", "t", "i", "o", "n", "\"", ":", " ", "\"", ".", ".", ".", "\"",
      "}", "]", "}">>

\* manual_prompt, src/final.py:415-417
code_manual_prompt(file_contents) ==
    <<"C", "r", "e", "a", "t", "e", " ", "u", "s", "e", "r", " ", "m", "a", "n", "u", "a", "l",
      " ", "b", "a", "s", "e", "d", " ", "o", "n", " ", "c", "o", "d", "e", "b", "a", "s", "e",
      ":", "\n", "F", "i", "l", "e", "s", ":", " ">>
    \o
    _format_files_for_prompt(limited_contents(file_contents), 3)
    \o
    <<"\n", "P", "r", "o", "v", "i", "d", "e", " ", "i", "n", " ", "J", "S", "O", "N", ":", " ",
      "{", "\"", "i", "n", "t", "r", "o", "d", "u", "c", "t", "i", "o", "n", "\"", ":", " ", "\"",
      ".", ".", ".", "\"", ",", " ", "\"", "g", "e", "t", "t", "i", "n", "g", "_", "s", "t", "a",
      "r", "t", "e", "d", "\"", ":", " ", "[", "{", "\"", "s", "t", "e", "p", "\"", ":", " ", "\"",
      ".", ".", ".", "\"", ",", " ", "\"", "d", "e", "s", "c", "r", "i", "p", "t", "i", "o", "n",
      "\"", ":", " ", "\"", ".", ".", ".", "\"", ",", " ", "\"", "s", "c", "r", "e", "e", "n", "s",
      "h", "o", "t", "_", "n", "o", "t", "e", "\"", ":", " ", "\"", ".", ".", ".", "\"", "}", "]",
      ",", " ", "\"", "f", "e", "a", "t", "u", "r", "e", "s", "\"", ":", " ", "[", "{", "\"", "f",
      "e", "a", "t", "u", "r", "e", "\"", ":", " ", "\"", ".", ".", ".", "\"", ",", " ", "\"", "d",
      "e", "s", "c", "r", "i", "p", "t", "i", "o", "n", "\"", ":", " ", "\"", ".", ".", ".", "\"",
      ",", " ", "\"", "h", "o", "w", "_", "t", "o", "_", "u", "s", "e", "\"", ":", " ", "[", "\"",
      ".", ".", ".", "\"", "]", ",", " ", "\"", "t", "i", "p", "s", "\"", ":", " ", "[", "\"", ".",
      ".", ".", "\"", "]", "}", "]", ",", " ", "\"", "c", "o", "m", "m", "o", "n", "_", "t", "a",
      "s", "k", "s", "\"", ":", " ", "[", "{", "\"", "t", "a", "s", "k", "\"", ":", " ", "\"", ".",
      ".", ".", "\"", ",", " ", "\"", "s", "t", "e", "p", "s", "\"", ":", " ", "[", "\"", ".", ".",
      ".", "\"", "]", ",", " ", "\"", "n", "o", "t", "e", "s", "\"", ":", " ", "[", "\"", ".", ".",
      ".", "\"", "]", "}", "]", ",", " ", "\"", "t", "r", "o", "u", "b", "l", "e", "s", "h", "o",
      "o", "t", "i", "n", "g", "\"", ":", " ", "[", "{", "\"", "i", "s", "s", "u", "e", "\"", ":",
      " ", "\"", ".", ".", ".", "\"", ",", " ", "\"", "s", "o", "l", "u", "t", "i", "o", "n", "\"",
      ":", " ", "\"", ".", ".", ".", "\"", ",", " ", "\"", "p", "r", "e", "v", "e", "n", "t", "i",
      "o", "n", "\"", ":", " ", "\"", ".", ".", ".", "\"", "}", "]", ",", " ", "\"", "f", "a", "q",
      "\"", ":", " ", "[", "{", "\"", "q", "u", "e", "s", "t", "i", "o", "n", "\"", ":", " ", "\"",
      ".", ".", ".", "\"", ",", " ", "\"", "a", "n", "s", "w", "e", "r", "\"", ":", " ", "\"", ".",
      ".", ".", "\"", "}", "]", ",", " ", "\"", "s", "u", "p", "p", "o", "r", "t", "_", "i", "n",
      "f", "o", "\"", ":", " ", "{", "\"", "c", "o", "n", "t", "a", "c", "t", "\"", ":", " ", "\"",
      ".", ".", ".", "\"", ",", " ", "\"", "h", "o", "u", "r", "s", "\"", ":", " ", "\"", ".", ".",
      ".", "\"", ",", " ", "\"", "r", "e", "s", "o", "u", "r", "c", "e", "s", "\"", ":", " ", "[",
      "\"", ".", ".", ".", "\"", "]", "}", "}">>

\* the keys of the outermost object of the JSON shape a prompt asks for
RequestedKeys(name) ==
    CASE name = "text_business_prompt" ->
             {"\"business_problem", "\"value_propositions", "\"target_users", "\"business_benefits",
             "\"competitive_advantages", "\"executive_summary"}
      [] name = "text_app_arch_prompt" ->
             {"\"architecture_layers", "\"services", "\"communication_patterns",
             "\"deployment_model", "\"scalability_approach", "\"performance_optimization"}
      [] name = "text_tech_arch_prompt" ->
             {"\"frontend_stack", "\"backend_stack", "\"database_stack", "\"infrastructure",
             "\"integration_points", "\"security_layers", "\"cicd_pipeline", "\"monitoring_tools"}
      [] name = "text_db_prompt" ->
             {"\"database_type", "\"entities", "\"relationships", "\"optimization_strategies",
             "\"backup_strategy", "\"data_security"}
      [] name = "text_uiux_prompt" ->
             {"\"user_personas", "\"user_journeys", "\"key_screens", "\"design_system",
             "\"accessibility_features", "\"responsive_breakpoints"}
      [] name = "text_frd_prompt" ->
             {"\"functional_requirements", "\"use_cases", "\"business_rules", "\"data_requirements",
             "\"interface_requirements", "\"non_functional_requirements", "\"confidence_score"}
      [] name = "text_test_prompt" ->
             {"\"test_strategy", "\"test_scenarios", "\"test_cases", "\"automation_candidates",
             "\"performance_tests", "\"security_tests"}
      [] name = "text_manual_prompt" ->
             {"\"introduction", "\"getting_started", "\"features", "\"common_tasks",
             "\"troubleshooting", "\"faq", "\"support_info"}
      [] name = "code_business_prompt" ->
             {"\"business_problem", "\"value_propositions", "\"target_users", "\"business_benefits",
             "\"competitive_advantages", "\"executive_summary"}
      [] name = "code_app_arch_prompt" ->
             {"\"architecture_layers", "\"services", "\"communication_patterns",
             "\"deployment_model", "\"scalability_approach", "\"performance_optimization"}
      [] name = "code_tech_arch_prompt" ->
             {"\"frontend_stack", "\"backend_stack", "\"database_stack", "\"infrastructure",
             "\"integration_points", "\"security_layers", "\"cicd_pipeline", "\"monitoring_tools"}
      [] name = "code_db_prompt" ->
             {"\"database_type", "\"entities", "\"relationships", "\"optimization_strategies",
             "\"backup_strategy", "\"data_security"}
      [] name = "code_uiux_prompt" ->
             {"\"user_personas", "\"user_journeys", "\"key_screens", "\"design_system",
             "\"accessibility_features", "\"responsive_breakpoints"}
      [] name = "code_frd_prompt" ->
             {"\"functional_requirements", "\"use_cases", "\"business_rules", "\"data_requirements",
             "\"interface_requirements", "\"non_functional_requirements"}
      [] name = "code_test_prompt" ->
             {"\"test_strategy", "\"test_scenarios", "\"test_cases", "\"automation_candidates",
             "\"performance_tests", "\"security_tests"}
      [] name = "code_manual_prompt" ->
             {"\"introduction", "\"getting_started", "\"features", "\"common_tasks",
             "\"troubleshooting", "\"faq", "\"support_info"}

\* the eight calls of analyze_from_text, in order: key of analyses, prompt,
\* keys asked for
analyze_from_text(user_input) ==
    <<[call |-> "business",
       prompt |-> text_business_prompt(user_input),
       keys |-> RequestedKeys("text_business_prompt")],
      [call |-> "app_architecture",
       prompt |-> text_app_arch_prompt(user_input),
       keys |-> RequestedKeys("text_app_arch_prompt")],
      [call |-> "tech_architecture",
       prompt |-> text_tech_arch_prompt(user_input),
       keys |-> RequestedKeys("text_tech_arch_prompt")],
      [call |-> "database_design",
       prompt |-> text_db_prompt(user_input),
       keys |-> RequestedKeys("text_db_prompt")],
      [call |-> "uiux_design",
       prompt |-> text_uiux_prompt(user_input),
       keys |-> RequestedKeys("text_uiux_prompt")],
      [call |-> "frd",
       prompt |-> text_frd_prompt(user_input),
       keys |-> RequestedKeys("text_frd_prompt")],
      [call |-> "test_scripts",
       prompt |-> text_test_prompt(user_input),
       keys |-> RequestedKeys("text_test_prompt")],
      [call |-> "user_manual",
       prompt |-> text_manual_prompt(user_input),
       keys |-> RequestedKeys("text_manual_prompt")]>>

\* the eight calls of analyze_codebase, in order: key of analyses, prompt,
\* keys asked for
analyze_codebase(file_contents) ==
    <<[call |-> "business",
       prompt |-> code_business_prompt(file_contents),
       keys |-> RequestedKeys("code_business_prompt")],
      [call |-> "app_architecture",
       prompt |-> code_app_arch_prompt(file_contents),
       keys |-> RequestedKeys("code_app_arch_prompt")],
      [call |-> "tech_architecture",
       prompt |-> code_tech_arch_prompt(file_contents),
       keys |-> RequestedKeys("code_tech_arch_prompt")],
      [call |-> "database_design",
       prompt |-> code_db_prompt(file_contents),
       keys |-> RequestedKeys("code_db_prompt")],
      [call |-> "uiux_design",
       prompt |-> code_uiux_prompt(file_contents),
       keys |-> RequestedKeys("code_uiux_prompt")],
      [call |-> "frd",
       prompt |-> code_frd_prompt(file_contents),
       keys |-> RequestedKeys("code_frd_prompt")],
      [call |-> "test_scripts",
       prompt |-> code_test_prompt(file_contents),
       keys |-> RequestedKeys("code_test_prompt")],
      [call |-> "user_manual",
       prompt |-> code_manual_prompt(file_contents),
       keys |-> RequestedKeys("code_manual_prompt")]>>

InputShop == <<"a", " ", "s", "h", "o", "p">>

InputBank == <<"b", "a", "n", "k", " ", "b", "u", "s", "i", "n", "e", "s", "s">>

\* the project descriptions
UserInputs == {<< >>, InputShop, InputBank}

FileA == [path |-> <<"a", ".", "p", "y">>, content |-> <<"x", " ", "=", " ", "1">>]

FileB == [path |-> <<"b", ".", "j", "s">>, content |-> <<"x", "\n", "y", "\n">>]

\* the uploaded codebases
FileContents == {<< >>, <<FileA>>, <<FileB, FileA>>}

\* the calls the two analyses make, over the inputs
\* the elements of a sequence
Range(s) == {s[k] : k \in DOMAIN s}

BuiltPrompts ==
    UNION {Range(analyze_from_text(user_input)) : user_input \in UserInputs}
    \cup UNION {Range(analyze_codebase(file_contents)) :
                    file_contents \in FileContents}

\* the model fails at every call, or can also answer with an object
AnalyzeCollaborators ==
    {{Raises},
     {Returns(TextProse)},
     {Raises, Returns(TextTruncated), Returns(TextObject)}}

\* self._call_llm(x_prompt): max_retries has its default, 3
AnalyzeInit ==
    /\ prompt \in {b.prompt : b \in BuiltPrompts}
    /\ max_retries = 3
    /\ collaborator \in AnalyzeCollaborators
    /\ attempt = -1
    /\ response = Unbound
    /\ content = Unbound
    /\ e = "unbound"
    /\ returned = NoValue
    /\ pc = "for"
    /\ invocations = 0
    /\ completed = 0
    /\ failed = 0
    /\ repairs = 0
    /\ fallbacks = 0
    /\ warnings = 0
    /\ errors = 0
    /\ lookups = << >>
    /\ SessionInit
    /\ RestInit

\* the steps of a call with max_retries = 3: the loop is never exhausted,
\* so line 496 is not among them
AnalyzeNext ==
    \/ For
    \/ \E o \in Outcomes : Create(o)
    \/ Loads
    \/ ExceptJson
    \/ Repair
    \/ Return489
    \/ ExceptException
    \/ Return494

AnalyzeSpec == AnalyzeInit /\ [][AnalyzeNext]_vars

(***************************************************************************)
(* An analysis run: analyze_text_flow and analyze_codebase_flow            *)
(***************************************************************************)

\* the calls of the run, in the order of the statements of the analysis
CallsOf(r) ==
    IF r.flow = "text"
    THEN analyze_from_text(r.source)
    ELSE analyze_codebase(r.source)

\* a call is left out after each call
NextStepSkipping(step) == step + 2

\* the call that follows call number step
NextStep(step) == step + 1

\* d[key] = value, d the sequence of the items of a dict
DictSet(d, key, value) ==
    IF \E k \in DOMAIN d : d[k].key = key
    THEN [k \in DOMAIN d |->
             IF d[k].key = key THEN [key |-> key, value |-> value] ELSE d[k]]
    ELSE Append(d, [key |-> key, value |-> value])

\* the largest number of runs of a session
MaxRuns == 2

\* the button of the text mode is pressed: analyze_text_flow(user_input, ...)
StartTextFlow(user_input, c) ==
    /\ pc = "idle"
    /\ runs < MaxRuns
    /\ runs' = runs + 1
    /\ run' = [flow |-> "text", source |-> user_input, step |-> 1]
    /\ collaborator' = c
    /\ analyses' = << >>
    /\ pc' = "construct"
    /\ UNCHANGED <<prompt, max_retries, attempt, response, content, e,
                   returned, invocations, completed, failed, repairs,
                   fallbacks, warnings, errors, lookups, analysis_complete,
                   analysis_data>>
    /\ UNCHANGED restVars

\* the button of the upload mode is pressed: analyze_codebase_flow(...);
\* file_contents is what extract_files gives when it does not raise
StartCodebaseFlow(file_contents, c) ==
    /\ pc = "idle"
    /\ runs < MaxRuns
    /\ runs' = runs + 1
    /\ run' = [flow |-> "codebase", source |-> file_contents, step |-> 1]
    /\ collaborator' = c
    /\ analyses' = << >>
    /\ pc' = "construct"
    /\ UNCHANGED <<prompt, max_retries, attempt, response, content, e,
                   returned, invocations, completed, failed, repairs,
                   fallbacks, warnings, errors, lookups, analysis_complete,
                   analysis_data>>
    /\ UNCHANGED restVars

\* analyzer = CodebaseAnalyzer(...), before the try: an exception of the
\* constructor leaves the flow
Construct(raises) ==
    /\ pc = "construct"
    /\ IF raises
       THEN /\ pc' = "idle"
            /\ run' = NoRun
       ELSE /\ pc' = IF run.flow = "codebase" THEN "extract" ELSE "progress"
            /\ UNCHANGED run
    /\ UNCHANGED <<prompt, max_retries, collaborator, attempt, response,
                   content, e, returned, invocations, completed, failed,
                   repairs, fallbacks, warnings, errors, lookups, analyses,
                   analysis_complete, analysis_data, runs>>
    /\ UNCHANGED restVars

\* file_contents = analyzer.extract_files(zip_path, temp_dir), in the try
ExtractFiles(raises) ==
    /\ pc = "extract"
    /\ pc' = IF raises THEN "flow_except" ELSE "progress"
    /\ UNCHANGED <<prompt, max_retries, collaborator, attempt, response,
                   content, e, returned, invocations, completed, failed,
                   repairs, fallbacks, warnings, errors, lookups,
                   sessionVars>>
    /\ UNCHANGED restVars

\* progress_callback(...), then the prompt is built and _call_llm(prompt)
\* is entered with max_retries = 3
ProgressCallback(raises) ==
    /\ pc = "progress"
    /\ IF raises
       THEN /\ pc' = "flow_except"
            /\ UNCHANGED <<prompt, max_retries, attempt, response, content,
                           e, returned, invocations, completed, failed,
                           repairs, fallbacks, warnings, errors>>
       ELSE /\ prompt' = CallsOf(run)[run.step].prompt
            /\ max_retries' = 3
            /\ attempt' = -1
            /\ response' = Unbound
            /\ content' = Unbound
            /\ e' = "unbound"
            /\ returned' = NoValue
            /\ invocations' = 0
            /\ completed' = 0
            /\ failed' = 0
            /\ repairs' = 0
            /\ fallbacks' = 0
            /\ warnings' = 0
            /\ errors' = 0
            /\ pc' = "for"
    /\ UNCHANGED <<collaborator, lookups, sessionVars>>
    /\ UNCHANGED restVars

\* analyses[key] = the value _call_llm returned; the next statement is the
\* next call, or return analyses after the eighth
Store ==
    /\ pc = "done"
    /\ run.flow # "none"
    /\ analyses' = DictSet(analyses, CallsOf(run)[run.step].call, returned)
    /\ IF NextStep(run.step) <= Len(CallsOf(run))
       THEN /\ run' = [run EXCEPT !.step = NextStep(run.step)]
            /\ pc' = "progress"
       ELSE /\ pc' = "return_analyses"
            /\ UNCHANGED run
    /\ UNCHANGED <<prompt, max_retries, collaborator, attempt, response,
                   content, e, returned, invocations, completed, failed,
                   repairs, fallbacks, warnings, errors, lookups,
                   analysis_complete, analysis_data, runs>>
    /\ UNCHANGED restVars

\* the analysis has returned: st.session_state.analysis_data = analyses
SetData ==
    /\ pc = "return_analyses"
    /\ analysis_data' = [none |-> FALSE, mapping |-> analyses]
    /\ pc' = "set_complete"
    /\ UNCHANGED <<prompt, max_retries, collaborator, attempt, response,
                   content, e, returned, invocations, completed, failed,
                   repairs, fallbacks, warnings, errors, lookups, run,
                   analyses, analysis_complete, runs>>
    /\ UNCHANGED restVars

\* st.session_state.analysis_complete = True; the flow returns
SetComplete ==
    /\ pc = "set_complete"
    /\ analysis_complete' = TRUE
    /\ pc' = "idle"
    /\ run' = NoRun
    /\ analyses' = << >>
    /\ UNCHANGED <<prompt, max_retries, collaborator, attempt, response,
                   content, e, returned, invocations, completed, failed,
                   repairs, fallbacks, warnings, errors, lookups,
                   analysis_data, runs>>
    /\ UNCHANGED restVars

\* except Exception as e: st.error(...); the flow returns
FlowExcept ==
    /\ pc = "flow_except"
    /\ pc' = "idle"
    /\ run' = NoRun
    /\ analyses' = << >>
    /\ UNCHANGED <<prompt, max_retries, collaborator, attempt, response,
                   content, e, returned, invocations, completed, failed,
                   repairs, fallbacks, warnings, errors, lookups,
                   analysis_complete, analysis_data, runs>>
    /\ UNCHANGED restVars

\* the steps of _call_llm inside a run: max_retries is 3, line 496 is never
\* reached
CallStep ==
    \/ For
    \/ \E o \in Outcomes : Create(o)
    \/ Loads
    \/ ExceptJson
    \/ Repair
    \/ Return489
    \/ ExceptException
    \/ Return494

\* the steps of a run from the try of the flow on
RunStep ==
    \/ \E raises \in BOOLEAN : ExtractFiles(raises)
    \/ \E raises \in BOOLEAN : ProgressCallback(raises)
    \/ CallStep
    \/ Store
    \/ SetData
    \/ SetComplete
    \/ FlowExcept

\* the descriptions and the codebases of the runs of the pipeline
PipelineRuns ==
    {[flow |-> "text", source |-> InputShop, step |-> 1],
     [flow |-> "codebase", source |-> <<FileB, FileA>>, step |-> 1]}

\* one run, the analyzer constructed, the session state initial
PipelineInit ==
    /\ prompt = << >>
    /\ max_retries = 0
    /\ attempt = -1
    /\ response = Unbound
    /\ content = Unbound
    /\ e = "unbound"
    /\ returned = NoValue
    /\ invocations = 0
    /\ completed = 0
    /\ failed = 0
    /\ repairs = 0
    /\ fallbacks = 0
    /\ warnings = 0
    /\ errors = 0
    /\ collaborator \in AnalyzeCollaborators
    /\ run \in PipelineRuns
    /\ pc = IF run.flow = "codebase" THEN "extract" ELSE "progress"
    /\ analyses = << >>
    /\ analysis_complete = FALSE
    /\ analysis_data = None
    /\ runs = 1
    /\ lookups = << >>
    /\ RestInit

PipelineSpec == PipelineInit /\ [][RunStep]_vars

\* the collaborators of the runs of a session: the model always raises,
\* always answers in prose, or always answers with an object
FlowCollaborators ==
    {{Raises}, {Returns(TextProse)}, {Returns(TextObject)}}

\* a session: the script has set the session state, no button pressed yet
FlowsInit == CallIdle /\ lookups = << >> /\ SessionInit /\ RestInit

\* the runs of a session, one after the other
FlowsNext ==
    \/ \E c \in FlowCollaborators : StartTextFlow(InputShop, c)
    \/ \E c \in FlowCollaborators : StartCodebaseFlow(<<FileA>>, c)
    \/ \E raises \in BOOLEAN : Construct(raises)
    \/ RunStep

FlowsSpec == FlowsInit /\ [][FlowsNext]_vars

(***************************************************************************)
(* Two _call_llm calls of one analyzer side by side.  A call has a frame   *)
(* calls[i] with its arguments, loop variable and position, and its local  *)
(* variables response and content in buffers; the client is shared.        *)
(***************************************************************************)

CallIds == {1, 2}

\* the prompts of the two calls
ConcurrentPrompts == <<PromptBusiness, PromptTest>>

\* the largest max_retries of the calls side by side
MaxConcurrentRetries == 2

\* what the shared client can do at a call
ConcurrentOutcomes ==
    {Raises, Returns(TextFenced), Returns(TextObject), Returns(TextProse)}

\* one buffer for the local variables of all the calls
ContentSlotShared(i) == 1

\* the buffer that holds the local variables response and content of call i
ContentSlot(i) == i

\* a call of st.warning or st.error that emits nothing
EmitDropped(n) == n

\* st.warning(...) or st.error(...): one more diagnostic is emitted
Emit(n) == n + 1

\* the frame of a call at its entry
Entry(p, m) ==
    [prompt |-> p, max_retries |-> m, attempt |-> -1, pc |-> "for",
     returned |-> NoValue, received |-> << >>, invocations |-> 0,
     repairs |-> 0, fallbacks |-> 0, warnings |-> 0, errors |-> 0]

\* what the calls side by side leave alone
aloneVars ==
    <<prompt, max_retries, collaborator, attempt, response, content, e,
      returned, pc, invocations, completed, failed, repairs, fallbacks,
      warnings, errors, lookups, sessionVars, codebase, limited>>

ConcurrentInit ==
    /\ \E m \in [CallIds -> 0..MaxConcurrentRetries] :
           calls = [i \in CallIds |-> Entry(ConcurrentPrompts[i], m[i])]
    /\ buffers = [i \in CallIds |-> [response |-> Unbound, content |-> Unbound]]
    /\ collaborator = ConcurrentOutcomes
    /\ prompt = << >>
    /\ max_retries = 0
    /\ attempt = -1
    /\ response = Unbound
    /\ content = Unbound
    /\ e = "unbound"
    /\ returned = NoValue
    /\ pc = "idle"
    /\ invocations = 0
    /\ completed = 0
    /\ failed = 0
    /\ repairs = 0
    /\ fallbacks = 0
    /\ warnings = 0
    /\ errors = 0
    /\ lookups = << >>
    /\ SessionInit
    /\ codebase = << >>
    /\ limited = << >>

\* for attempt in range(max_retries), in call i
ForOf(i) ==
    /\ calls[i].pc = "for"
    /\ LET c == calls[i]
       IN  calls' = [calls EXCEPT ![i] =
               IF RangeHasNext(c.attempt, c.max_retries)
               THEN [c EXCEPT !.attempt = c.attempt + 1,
                              !.invocations = c.invocations + 1,
                              !.pc = "create"]
               ELSE [c EXCEPT !.pc = "return_496"]]
    /\ UNCHANGED <<buffers, aloneVars>>

\* the call of chat.completions.create of call i ends with outcome o
CreateOf(i, o) ==
    /\ calls[i].pc = "create"
    /\ o \in collaborator
    /\ calls' = [calls EXCEPT ![i].received = Append(@, o),
                              ![i].pc = IF o.raises
                                        THEN Handler("Exception")
                                        ELSE "loads"]
    /\ buffers' = IF o.raises
                  THEN buffers
                  ELSE [buffers EXCEPT ![ContentSlot(i)] =
                           [response |-> o.text, content |-> Strip(o.text)]]
    /\ UNCHANGED aloneVars

\* parsed_json = json.loads(content); return parsed_json, in call i
LoadsOf(i) ==
    /\ calls[i].pc = "loads"
    /\ LET r == JsonLoads(buffers[ContentSlot(i)].content)
       IN  calls' = [calls EXCEPT ![i] =
               IF r.ok
               THEN [@ EXCEPT !.returned = Value(r),
                              !.pc = AfterLoads(Value(r))]
               ELSE [@ EXCEPT !.pc = Handler("JSONDecodeError")]]
    /\ UNCHANGED <<buffers, aloneVars>>

\* except json.JSONDecodeError, in call i
ExceptJsonOf(i) ==
    /\ calls[i].pc = "except_json"
    /\ calls' = [calls EXCEPT ![i].warnings = Emit(@),
                              ![i].pc =
                    IF LastAttemptJson(calls[i].attempt, calls[i].max_retries)
                    THEN "repair" ELSE "for"]
    /\ UNCHANGED <<buffers, aloneVars>>

\* the repair block, in call i
RepairOf(i) ==
    /\ calls[i].pc = "repair"
    /\ LET replaced   == ReplaceNewlines(buffers[ContentSlot(i)].content)
           json_match == ReSearch(replaced)
           r          == JsonLoads(json_match.group)
       IN  /\ buffers' = [buffers EXCEPT ![ContentSlot(i)].content =
                             IF json_match.found
                             THEN json_match.group ELSE replaced]
           /\ calls' = [calls EXCEPT ![i] =
                  IF ~json_match.found
                  THEN [@ EXCEPT !.repairs = @ + 1, !.pc = "return_489"]
                  ELSE IF r.ok
                  THEN [@ EXCEPT !.repairs = @ + 1, !.returned = Value(r),
                                 !.pc = "done"]
                  ELSE [@ EXCEPT !.repairs = @ + 1,
                                 !.pc = RepairHandler("JSONDecodeError")]]
    /\ UNCHANGED aloneVars

\* the record of a fallback return of call i
FallbackOf(i) ==
    [kind |-> "dict",
     toks |-> _get_fallback_structure(
                  FallbackArgument(calls[i].prompt,
                                   buffers[ContentSlot(i)].content))]

\* st.error(...); return self._get_fallback_structure(prompt), in call i
Return489Of(i) ==
    /\ calls[i].pc = "return_489"
    /\ calls' = [calls EXCEPT ![i].errors = Emit(@),
                              ![i].returned = FallbackOf(i),
                              ![i].fallbacks = @ + 1,
                              ![i].pc = "done"]
    /\ UNCHANGED <<buffers, aloneVars>>

\* except Exception, in call i
ExceptExceptionOf(i) ==
    /\ calls[i].pc = "except_exception"
    /\ calls' = [calls EXCEPT ![i].errors = Emit(@),
                              ![i].pc =
                    IF LastAttemptException(calls[i].attempt,
                                            calls[i].max_retries)
                    THEN "return_494" ELSE "for"]
    /\ UNCHANGED <<buffers, aloneVars>>

\* the fallback return of the except Exception clause, in call i
Return494Of(i) ==
    /\ calls[i].pc = "return_494"
    /\ calls' = [calls EXCEPT ![i].returned = FallbackOf(i),
                              ![i].fallbacks = @ + 1,
                              ![i].pc = "done"]
    /\ UNCHANGED <<buffers, aloneVars>>

\* the fallback return after the loop, in call i
Return496Of(i) ==
    /\ calls[i].pc = "return_496"
    /\ calls' = [calls EXCEPT ![i].returned = FallbackOf(i),
                              ![i].fallbacks = @ + 1,
                              ![i].pc = "done"]
    /\ UNCHANGED <<buffers, aloneVars>>

\* a step of one of the calls: the steps interleave in any order
ConcurrentNext ==
    \E i \in CallIds :
        \/ ForOf(i)
        \/ \E o \in ConcurrentOutcomes : CreateOf(i, o)
        \/ LoadsOf(i)
        \/ ExceptJsonOf(i)
        \/ RepairOf(i)
        \/ Return489Of(i)
        \/ ExceptExceptionOf(i)
        \/ Return494Of(i)
        \/ Return496Of(i)

ConcurrentSpec == ConcurrentInit /\ [][ConcurrentNext]_vars

(***************************************************************************)
(* The loop of analyze_codebase that fills limited_contents.  An uploaded  *)
(* file is held as its path and its length; its content is that many       *)
(* characters.                                                             *)
(***************************************************************************)

\* the largest number of uploaded files
MaxFiles == 3

\* the lengths of the uploaded files
Sizes == {1, 5000, 5001, 20000, 30000, 30001}

\* the paths of the uploaded files, distinct as the keys of a dict are
Paths == <<<<"a">>, <<"b">>, <<"c">>, <<"d">>, <<"e">>>>

\* the content of a file of n characters
ContentOfSize == [n \in Sizes |-> [k \in 1..n |-> "x"]]

\* the file_contents items a state of the loop stands for
Uploaded == [k \in DOMAIN codebase |->
                [path |-> codebase[k].path,
                 content |-> ContentOfSize[codebase[k].size]]]

\* the budget test with the bound itself excluded
OverBudgetInclusive(total_chars, text) == total_chars + Len(text) >= max_chars

\* if total_chars + len(content) > max_chars
OverBudget(total_chars, text) == total_chars + Len(text) > max_chars

LimitInit ==
    /\ \E n \in 0..MaxFiles : \E sizes \in [1..n -> Sizes] :
           codebase = [k \in 1..n |-> [path |-> Paths[k], size |-> sizes[k]]]
    /\ limited = [at |-> "for", k |-> 1, total_chars |-> 0,
                  limited_contents |-> << >>]
    /\ CallIdle
    /\ lookups = << >>
    /\ SessionInit
    /\ calls = << >>
    /\ buffers = << >>

\* one pass of the loop body that ends at line 304: the file is stored, cut
\* to 5000 characters, and its full length is added to total_chars
LimitStore ==
    /\ limited.at = "for"
    /\ limited.k <= Len(codebase)
    /\ ~OverBudget(limited.total_chars, Uploaded[limited.k].content)
    /\ limited' =
           [at |-> "for",
            k |-> limited.k + 1,
            total_chars |-> limited.total_chars
                            + Len(Uploaded[limited.k].content),
            limited_contents |->
                Append(limited.limited_contents,
                       [path |-> Uploaded[limited.k].path,
                        length |-> Len(Prefix(Uploaded[limited.k].content,
                                              5000))])]
    /\ UNCHANGED <<callVars, sessionVars, lookups, calls, buffers, codebase>>

\* break, at line 302
LimitBreak ==
    /\ limited.at = "for"
    /\ limited.k <= Len(codebase)
    /\ OverBudget(limited.total_chars, Uploaded[limited.k].content)
    /\ limited' = [limited EXCEPT !.at = "done"]
    /\ UNCHANGED <<callVars, sessionVars, lookups, calls, buffers, codebase>>

\* the items of file_contents are exhausted
LimitEnd ==
    /\ limited.at = "for"
    /\ limited.k > Len(codebase)
    /\ limited' = [limited EXCEPT !.at = "done"]
    /\ UNCHANGED <<callVars, sessionVars, lookups, calls, buffers, codebase>>

LimitNext == LimitStore \/ LimitBreak \/ LimitEnd

LimitSpec == LimitInit /\ [][LimitNext]_vars

(***************************************************************************)
(* The earlier _call_llm of src/test.py: one attempt, no fallback template *)
(***************************************************************************)

Fence == <<BackTick, BackTick, BackTick>>

FenceJson == Fence \o <<"j", "s", "o", "n">>

\* a fenced object with prose around the fences
TextFencedProse ==
    <<"o", "k", " ">> \o FenceJson \o <<"\n">> \o TextObject
    \o <<"\n">> \o Fence \o <<" ", "o", "k">>

\* an opening fence that is never closed
TextFenceOpen == FenceJson \o TextObject

\* two fenced blocks
TextFencedTwice ==
    FenceJson \o TextEmptyObject \o Fence \o FenceJson \o TextObject \o Fence

\* what the model can do at the call of the earlier version
EarlierOutcomes ==
    Outcomes \cup {Returns(TextFencedProse), Returns(TextFenceOpen),
                   Returns(TextFencedTwice)}

\* the positions of a text at which the word w starts
Occurrences(s, w) == {i \in 1..Len(s) : StartsAt(s, i, w)}

\* the least number of a non-empty set of numbers
Least(S) == CHOOSE a \in S : \A b \in S : a <= b

\* a search that finds no fenced block
FenceSearchNever(s) == [found |-> FALSE, group |-> << >>]

\* re.search of the fence pattern with re.DOTALL: found is whether
\* json_match is not None, group its group(1), the text between the first
\* opening fence and the next closing fence without the whitespace at its
\* two ends
FenceSearch(s) ==
    IF Occurrences(s, FenceJson) = {}
    THEN [found |-> FALSE, group |-> << >>]
    ELSE LET a == SkipWs(s, Least(Occurrences(s, FenceJson)) + Len(FenceJson))
             closes == {j \in Occurrences(s, Fence) : j >= a}
         IN  IF closes = {}
             THEN [found |-> FALSE, group |-> << >>]
             ELSE [found |-> TRUE,
                   group |-> Slice(s, a, SkipWsBack(s, Least(closes) - 1))]

\* the empty mapping of line 277
EmptyMapping == [kind |-> "dict", toks |-> <<"{", "}">>]

EarlierInit ==
    /\ prompt \in Prompts
    /\ collaborator \in {EarlierOutcomes} \cup {{o} : o \in EarlierOutcomes}
    /\ max_retries = 0
    /\ attempt = -1
    /\ response = Unbound
    /\ content = Unbound
    /\ e = "unbound"
    /\ returned = NoValue
    /\ pc = "create"
    /\ invocations = 0
    /\ completed = 0
    /\ failed = 0
    /\ repairs = 0
    /\ fallbacks = 0
    /\ warnings = 0
    /\ errors = 0
    /\ lookups = << >>
    /\ SessionInit
    /\ RestInit

\* response = self.client.chat.completions.create(...);
\* content = response.choices[0].message.content
EarlierCreate(o) ==
    /\ pc = "create"
    /\ o \in collaborator
    /\ invocations' = invocations + 1
    /\ IF o.raises
       THEN /\ pc' = "except"
            /\ UNCHANGED <<response, content>>
       ELSE /\ response' = o.text
            /\ content' = o.text
            /\ pc' = "search"
    /\ UNCHANGED <<prompt, max_retries, collaborator, attempt, e, returned,
                   completed, failed, repairs, fallbacks, warnings, errors>>
    /\ UNCHANGED <<sessionVars, lookups, restVars>>

\* json_match = re.search(...); if json_match: content = json_match.group(1)
EarlierSearch ==
    /\ pc = "search"
    /\ content' = IF FenceSearch(content).found
                  THEN FenceSearch(content).group
                  ELSE content
    /\ pc' = "loads"
    /\ UNCHANGED <<prompt, max_retries, collaborator, attempt, response, e,
                   returned, invocations, completed, failed, repairs,
                   fallbacks, warnings, errors>>
    /\ UNCHANGED <<sessionVars, lookups, restVars>>

\* return json.loads(content)
EarlierLoads ==
    /\ pc = "loads"
    /\ LET r == JsonLoads(content)
       IN  IF r.ok
           THEN /\ returned' = Value(r)
                /\ completed' = completed + 1
                /\ pc' = "done"
           ELSE /\ pc' = "except"
                /\ UNCHANGED <<returned, completed>>
    /\ UNCHANGED <<prompt, max_retries, collaborator, attempt, response,
                   content, e, invocations, failed, repairs, fallbacks,
                   warnings, errors>>
    /\ UNCHANGED <<sessionVars, lookups, restVars>>

\* except Exception as e: st.error(...); return {}
EarlierExcept ==
    /\ pc = "except"
    /\ e' = "Exception"
    /\ errors' = errors + 1
    /\ failed' = failed + 1
    /\ returned' = EmptyMapping
    /\ pc' = "done"
    /\ UNCHANGED <<prompt, max_retries, collaborator, attempt, response,
                   content, invocations, completed, repairs, fallbacks,
                   warnings>>
    /\ UNCHANGED <<sessionVars, lookups, restVars>>

EarlierNext ==
    \/ \E o \in EarlierOutcomes : EarlierCreate(o)
    \/ EarlierSearch
    \/ EarlierLoads
    \/ EarlierExcept

EarlierSpec == EarlierInit /\ [][EarlierNext]_vars

(***************************************************************************)
(* Properties                                                              *)
(***************************************************************************)

\* the positions at which _get_fallback_structure is about to be called
FallbackSites == {"return_489", "return_494", "return_496"}

\* the record the fallback lookup gives for the prompt of the call
FallbackRecord == [kind |-> "dict", toks |-> _get_fallback_structure(prompt)]

\* C1: for every max_retries >= 1 and every sequence of model outcomes, the
\* value _call_llm returns is a JSON object (a dict), never a bare string,
\* number, array or null.
C1_ReturnsObject ==
    (max_retries >= 1 /\ pc = "done") => returned.kind = "dict"

\* C2: with the model outcomes drawn from the fuzz set (transport error,
\* empty string, prose, truncated braces, deeply nested unparseable text), in
\* any order, and max_retries >= 1 (1, 3 and 5 among them), the call never
\* ends in an error state, and what it returns is a record.
C2_NeverRaises ==
    (max_retries >= 1 /\ collaborator \subseteq FuzzOutcomes)
        => /\ pc # "raised"
           /\ pc = "done" => returned.kind = "dict"

C2_Witness ==
    /\ collaborator = FuzzOutcomes
    /\ max_retries = 5
    /\ invocations = 5
    /\ errors >= 2
    /\ warnings >= 2
    /\ response = TextDeep
    /\ pc = "done"

\* C3: with max_retries >= 1, the fallback lookup happens only after exactly
\* max_retries invocations that all failed; a direct parse that succeeds at
\* attempt k returns the parsed value at attempt k, and no fallback lookup
\* is performed in that call.
C3_FallbackOnlyAfterRetries ==
    /\ [](max_retries >= 1 =>
            /\ (pc \in FallbackSites \/ fallbacks > 0) =>
                   /\ invocations = max_retries
                   /\ completed = max_retries
                   /\ failed = max_retries
            /\ (pc = "done" /\ failed < invocations) => fallbacks = 0)
    /\ [][(max_retries >= 1 /\ pc = "loads" /\ JsonLoads(response).ok) =>
              /\ pc' = "done"
              /\ returned' = Value(JsonLoads(response))
              /\ attempt' = attempt
              /\ invocations' = attempt + 1
              /\ fallbacks' = 0]_vars

C3_Witness ==
    /\ pc = "done"
    /\ max_retries = 3
    /\ fallbacks = 1
    /\ failed = 3
    /\ warnings = 2
    /\ returned = FallbackRecord

\* C4: when the first attempt returns text that parses directly as a JSON
\* object, _call_llm returns the parsed object of that text after exactly one
\* invocation, without repair and without fallback, for every max_retries >= 1.
C4_FirstAttemptObject ==
    [][(max_retries >= 1 /\ attempt = 0 /\ pc = "loads"
            /\ JsonLoads(response).kind = "dict") =>
           /\ pc' = "done"
           /\ returned' = Value(JsonLoads(response))
           /\ invocations' = 1
           /\ repairs' = 0
           /\ fallbacks' = 0]_vars

C4_Witness ==
    /\ pc = "done"
    /\ max_retries = 3
    /\ invocations = 1
    /\ response = TextObjectSpaced
    /\ returned = [kind |-> "dict", toks |-> <<"{", "\"a", ":", "1", "}">>]

\* C5: when every invocation raises a transport error, _call_llm makes exactly
\* max_retries invocations (max_retries >= 1) and then returns the non-empty
\* fallback template of the category the prompt's keywords select.
C5_AllTransportErrors ==
    (max_retries >= 1 /\ collaborator = {Raises} /\ pc = "done") =>
        /\ invocations = max_retries
        /\ completed = max_retries
        /\ repairs = 0
        /\ returned = FallbackRecord
        /\ Len(returned.toks) > 2
        /\ prompt = PromptBoth => returned.toks = TemplateBusiness
        /\ prompt = PromptDatabase => returned.toks = TemplateDatabase
        /\ prompt = PromptOther => returned.toks = TemplateGeneric

C5_Witness ==
    /\ collaborator = {Raises}
    /\ pc = "done"
    /\ max_retries = 3
    /\ invocations = 3
    /\ prompt = PromptDatabase
    /\ returned.toks = TemplateDatabase

\* the text between the opening fence with its json tag and the closing fence
FenceOpen == <<BackTick, BackTick, BackTick, "j", "s", "o", "n">>

FenceClose == <<BackTick, BackTick, BackTick>>

IsFenced(t) ==
    /\ Len(t) >= Len(FenceOpen) + Len(FenceClose)
    /\ StartsAt(t, 1, FenceOpen)
    /\ StartsAt(t, Len(t) - 2, FenceClose)

Fenced(t) == Slice(t, Len(FenceOpen) + 1, Len(t) - Len(FenceClose))

\* t is a valid flat JSON object wrapped in code fences
IsFencedFlatObject(t) ==
    /\ IsFenced(t)
    /\ JsonLoads(Fenced(t)).kind = "dict"
    /\ \A k \in 2..(Len(JsonLoads(Fenced(t)).toks) - 1) :
           JsonLoads(Fenced(t)).toks[k] \notin {"{", "[", "}", "]"}

\* the number of brace characters of a text
Braces(t) == Cardinality({k \in 1..Len(t) : IsBrace(t[k])})

\* what C6 says of a call whose every attempt returns the fenced text t
FencedIsRepaired(t) ==
    (max_retries >= 1 /\ collaborator = {Returns(t)} /\ pc = "done") =>
        /\ returned = Value(JsonLoads(Fenced(t)))
        /\ invocations = max_retries
        /\ repairs = 1
        /\ fallbacks = 0

\* C6 as stated: for every valid flat JSON object wrapped in code fences
\* that the model returns on every attempt, _call_llm returns the wrapped
\* object, from the repair of the final attempt, after max_retries
\* invocations and without fallback.
C6_Original ==
    \A t \in Texts : IsFencedFlatObject(t) => FencedIsRepaired(t)

\* C6 amended: the same, for wrapped flat objects that have no brace
\* character inside their string values (the only braces of the text are
\* the two of the object).
C6_FencedFlatObjectRepaired ==
    \A t \in Texts :
        (IsFencedFlatObject(t) /\ Braces(t) = 2) => FencedIsRepaired(t)

C6_Witness ==
    /\ collaborator = {Returns(TextFencedLines)}
    /\ max_retries = 3
    /\ pc = "done"
    /\ repairs = 1
    /\ invocations = 3
    /\ returned = [kind |-> "dict", toks |-> <<"{", "\"a", ":", "1", "}">>]

\* C7: the invocations number at most max_retries and are strictly
\* sequential: at most one is in flight, a new one starts only when every
\* earlier one has completed and its attempt has been classified as failed,
\* and none starts after the repair step or after fallback selection.
C7_SequentialInvocations ==
    /\ [](/\ invocations <= max_retries
          /\ invocations - completed \in {0, 1})
    /\ [][invocations' # invocations =>
              /\ invocations' = invocations + 1
              /\ completed = invocations
              /\ failed = invocations
              /\ repairs = 0
              /\ fallbacks = 0
              /\ pc \notin FallbackSites]_vars

C7_Witness ==
    /\ max_retries = 3
    /\ pc = "create"
    /\ invocations = 3
    /\ completed = 2
    /\ failed = 2
    /\ warnings = 1

\* C8: the repair step is entered at most once per call, only after a parse
\* failure of attempt max_retries - 1, and it works on the text of that
\* attempt; a parse failure of an earlier attempt leads to a new invocation
\* with no repair of that attempt's text.
C8_RepairOnlyOnLastAttempt ==
    /\ [](/\ repairs <= 1
          /\ pc = "repair" =>
                 /\ attempt = max_retries - 1
                 /\ e = "JSONDecodeError"
                 /\ ~JsonLoads(response).ok
                 /\ content = Strip(response))
    /\ [][repairs' # repairs =>
              /\ repairs = 0
              /\ pc = "repair"
              /\ completed = max_retries]_vars
    /\ [][(pc = "except_json" /\ attempt < max_retries - 1) =>
              /\ pc' = "for"
              /\ repairs' = 0
              /\ content' = content
              /\ returned' = NoValue]_vars
    /\ [][(pc = "for" /\ attempt >= 0) =>
              /\ pc' = "create"
              /\ invocations' = invocations + 1
              /\ repairs' = 0]_vars

C8_Witness ==
    /\ pc = "done"
    /\ max_retries = 3
    /\ repairs = 1
    /\ warnings = 3
    /\ response = TextNewlineString
    /\ returned = [kind |-> "dict", toks |-> <<"{", "\"a", ":", "\"b c", "}">>]

\* C9 as stated: when the last permitted attempt fails, by transport error or
\* by parse failure, the call passes through the repair step before it
\* reaches the fallback.
C9_Original ==
    (max_retries >= 1 /\ pc \in FallbackSites) => repairs = 1

\* C9 amended: when the last permitted attempt fails by parse failure, the
\* call passes through the repair step before it reaches the fallback; when
\* it fails by transport error, the call reaches the fallback directly, with
\* no repair step.
C9_RepairBeforeFallbackOnParseFailure ==
    (max_retries >= 1 /\ pc \in FallbackSites) =>
        /\ attempt = max_retries - 1
        /\ e \in {"JSONDecodeError", "Exception"}
        /\ e = "JSONDecodeError" => (repairs = 1 /\ pc = "return_489")
        /\ e = "Exception" => (repairs = 0 /\ pc = "return_494")

C9_Witness ==
    /\ max_retries = 3
    /\ pc = "return_494"
    /\ e = "Exception"
    /\ warnings = 2
    /\ repairs = 0

\* the repair of the stripped text c fails: no brace region, or a region
\* that json.loads rejects
RepairFails(c) ==
    LET json_match == ReSearch(ReplaceNewlines(c))
    IN  ~json_match.found \/ ~JsonLoads(json_match.group).ok

\* C10: when the repair step fails, because no brace-delimited region is
\* found in the final attempt's text or because the region does not parse,
\* _call_llm returns the fallback template the prompt selects and does not
\* raise.
C10_RepairFailureFallsBack ==
    /\ [](pc # "raised")
    /\ [][(pc = "repair" /\ RepairFails(Strip(response))) =>
              (pc' = "return_489" /\ returned' = NoValue)]_vars
    /\ [][pc = "return_489" =>
              (pc' = "done" /\ returned' = FallbackRecord)]_vars
    /\ []((pc = "done" /\ repairs = 1 /\ RepairFails(Strip(response))) =>
              (returned = FallbackRecord /\ fallbacks = 1))

C10_Witness ==
    /\ pc = "done"
    /\ repairs = 1
    /\ fallbacks = 1
    /\ response = TextDeep
    /\ ReSearch(content).found
    /\ prompt = PromptTest
    /\ returned.toks = TemplateTest

\* C11: every call terminates: for any max_retries and any model outcomes, a
\* call whose invocations each return or raise eventually returns a record;
\* once it has returned, no attempt, repair or fallback step of that call
\* happens any more.
C11_Terminates ==
    /\ <>(pc = "done" /\ returned # NoValue)
    /\ [][pc = "done" =>
              /\ pc' = "done"
              /\ returned' = returned
              /\ attempt' = attempt
              /\ invocations' = invocations
              /\ repairs' = repairs
              /\ fallbacks' = fallbacks]_vars

C11_Witness ==
    /\ pc = "done"
    /\ max_retries = 5
    /\ invocations = 5
    /\ warnings = 3
    /\ errors = 2
    /\ repairs = 1
    /\ fallbacks = 0

\* C12: transport errors and parse failures count alike against
\* max_retries: a failed attempt of either kind uses up exactly one attempt,
\* and a failure of either kind that is not the last is followed by exactly
\* one new invocation.
C12_FailuresCountAlike ==
    /\ [](/\ pc \in {"except_json", "except_exception"} =>
                 (failed = attempt /\ invocations = attempt + 1)
          /\ pc = "for" => (failed = attempt + 1 /\ invocations = failed)
          /\ failed <= max_retries)
    /\ [][(pc \in {"except_json", "except_exception"}) =>
              /\ failed' = failed + 1
              /\ attempt' = attempt
              /\ invocations' = invocations
              /\ (attempt < max_retries - 1 => pc' = "for")
              /\ (attempt >= max_retries - 1 => pc' # "for")]_vars
    /\ [][(pc = "for" /\ attempt >= 0) =>
              /\ pc' = "create"
              /\ attempt' = attempt + 1
              /\ invocations' = invocations + 1]_vars

C12_Witness ==
    /\ pc = "create"
    /\ max_retries = 4
    /\ invocations = 3
    /\ failed = 2
    /\ warnings = 1
    /\ errors = 1


(***************************************************************************)
(* The fallback lookup: the properties are stated over the prompts and     *)
(* the records of the lookups, with a reading of "marker occurs in the     *)
(* prompt" that does not go through Lower and FallbackCategory.            *)
(***************************************************************************)

\* the other case of every letter
OtherCase ==
    [c \in {UpperCase[k] : k \in 1..26} \cup {LowerCase[k] : k \in 1..26} |->
        IF \E k \in 1..26 : UpperCase[k] = c
        THEN LowerCase[CHOOSE k \in 1..26 : UpperCase[k] = c]
        ELSE UpperCase[CHOOSE k \in 1..26 : LowerCase[k] = c]]

\* the same letter, in either case, or the same character
SameLetter(a, b) ==
    \/ a = b
    \/ a \in DOMAIN OtherCase /\ OtherCase[a] = b

\* the word w occurs in the text s, letter case apart
ContainsNoCase(s, w) ==
    \E i \in 1..(Len(s) - Len(w) + 1) :
        \A k \in 1..Len(w) : SameLetter(s[i + k - 1], w[k])

\* the categories in the order of the priority list, with their markers
CategoryOrder ==
    <<[category |-> "business",
       markers |-> {MarkerBusiness, MarkerExecutive}],
      [category |-> "application_architecture",
       markers |-> {MarkerApplicationArchitecture, MarkerArchitectureLayers}],
      [category |-> "technical_architecture",
       markers |-> {MarkerTechnicalArchitecture, MarkerTechnologyStack}],
      [category |-> "database", markers |-> {MarkerDatabase}],
      [category |-> "uiux", markers |-> {MarkerUi, MarkerUx}],
      [category |-> "frd",
       markers |-> {MarkerFrd, MarkerFunctionalRequirements}],
      [category |-> "test", markers |-> {MarkerTest}],
      [category |-> "user_manual", markers |-> {MarkerUserManual}]>>

\* the positions of the priority list of which a marker occurs in the prompt
Matching(p) ==
    {k \in DOMAIN CategoryOrder :
        \E w \in CategoryOrder[k].markers : ContainsNoCase(p, w)}

\* the first category of the priority list with a marker in the prompt
FirstMatch(p) ==
    IF Matching(p) = {}
    THEN "generic"
    ELSE CategoryOrder[CHOOSE k \in Matching(p) :
                           \A j \in Matching(p) : k <= j].category

\* the number of objects and lists open at token i of a record
Depth(toks, i) ==
    Cardinality({j \in 1..(i - 1) : toks[j] \in {"{", "["}})
    - Cardinality({j \in 1..(i - 1) : toks[j] \in {"}", "]"}})

\* the keys of the outermost object of a record
TopKeys(toks) ==
    {toks[i] : i \in {j \in 1..(Len(toks) - 1) :
                          toks[j + 1] = ":" /\ Depth(toks, j) = 1}}

\* C13: a prompt with a business marker ("business" or "executive") and an
\* architecture marker ("architecture_layers" or "application architecture")
\* gets the business template, not the layered-architecture template.
C13_BusinessBeforeArchitecture ==
    \A k \in DOMAIN lookups :
        LET p == lookups[k].prompt
        IN  (/\ \/ ContainsNoCase(p, MarkerBusiness)
                \/ ContainsNoCase(p, MarkerExecutive)
             /\ \/ ContainsNoCase(p, MarkerArchitectureLayers)
                \/ ContainsNoCase(p, MarkerApplicationArchitecture))
            => /\ lookups[k].record = TemplateBusiness
               /\ lookups[k].record # TemplateApplicationArchitecture

C13_Witness ==
    /\ Len(lookups) = 2
    /\ lookups[1].prompt = PromptLayersUpper
    /\ lookups[2].prompt = PromptExecutiveApplication
    /\ lookups[1].record = TemplateBusiness
    /\ lookups[2].record = TemplateBusiness

\* C14: the lookup returns the template of the first category, in the order
\* business, application architecture, technical architecture, database,
\* uiux, frd, test, user manual, of which a marker occurs in the lower-cased
\* prompt, and the generic record with the keys message and status exactly
\* when no marker of the eight categories occurs.
C14_FirstMatchWins ==
    \A k \in DOMAIN lookups :
        LET p == lookups[k].prompt
            r == lookups[k].record
        IN  /\ r = Template(FirstMatch(p))
            /\ (Matching(p) = {}) <=> (r = TemplateGeneric)
            /\ (Matching(p) = {}) <=> (TopKeys(r) = {"\"message", "\"status"})

C14_Witness ==
    /\ Len(lookups) = 2
    /\ lookups[1].prompt = PromptFrdTest
    /\ lookups[1].record = TemplateFRD
    /\ lookups[2].prompt = PromptOther
    /\ TopKeys(lookups[2].record) = {"\"message", "\"status"}


\* a token of a record is a string
IsStr(t) == Len(t) >= 1 /\ SubSeq(t, 1, 1) = "\""

\* the index of the last token of the value that starts at token i
ValueEnd(toks, i) ==
    IF toks[i] \in {"{", "["}
    THEN CHOOSE j \in i..Len(toks) :
             /\ Depth(toks, j + 1) = Depth(toks, i)
             /\ \A h \in i..(j - 1) : Depth(toks, h + 1) # Depth(toks, i)
    ELSE i

\* the value of a key of the outermost object of a record
Get(toks, key) ==
    LET j == CHOOSE h \in 1..(Len(toks) - 1) :
                 toks[h] = key /\ toks[h + 1] = ":" /\ Depth(toks, h) = 1
    IN  SubSeq(toks, j + 2, ValueEnd(toks, j + 2))

\* the elements of a list
Elements(toks) ==
    {SubSeq(toks, i, ValueEnd(toks, i)) :
        i \in {j \in 2..(Len(toks) - 1) :
                   Depth(toks, j) = 1 /\ (j = 2 \/ toks[j - 1] = ",")}}

MarkerDesignDatabase ==
    <<"D", "e", "s", "i", "g", "n", " ", "c", "o", "m", "p", "r", "e", "h", "e",
      "n", "s", "i", "v", "e", " ", "d", "a", "t", "a", "b", "a", "s", "e", " ",
      "s", "c", "h", "e", "m", "a">>

\* C16: for a prompt with "Design comprehensive database schema" and no
\* business, application-architecture or technical-architecture marker, when
\* the model raises on all 3 attempts the returned record has database_type
\* with a non-empty string and entities, a list of at least one entity, every
\* entity with the keys name, attributes and primary_key.
C16_DatabaseFallbackShape ==
    (/\ pc = "done"
     /\ max_retries = 3
     /\ invocations = 3
     /\ errors = 3
     /\ warnings = 0
     /\ Contains(prompt, MarkerDesignDatabase)
     /\ Matching(prompt) \cap {1, 2, 3} = {})
    => /\ returned.kind = "dict"
       /\ {"\"database_type", "\"entities"} \subseteq TopKeys(returned.toks)
       /\ LET db == Get(returned.toks, "\"database_type")
              entities == Get(returned.toks, "\"entities")
          IN  /\ Len(db) = 1
              /\ IsStr(db[1])
              /\ Len(db[1]) > 1
              /\ entities[1] = "["
              /\ Elements(entities) # {}
              /\ \A entity \in Elements(entities) :
                     /\ entity[1] = "{"
                     /\ {"\"name", "\"attributes", "\"primary_key"}
                            \subseteq TopKeys(entity)

C16_Witness ==
    /\ pc = "done"
    /\ prompt = PromptDatabase
    /\ collaborator = {Raises}
    /\ max_retries = 3
    /\ invocations = 3
    /\ errors = 3
    /\ warnings = 0
    /\ fallbacks = 1
    /\ Get(returned.toks, "\"database_type")
           = <<"\"Relational Database (PostgreSQL/MySQL)">>


\* C18: the fallback record depends on the prompt alone: every run that ends
\* in the fallback returns the record the priority list gives for its prompt,
\* so two such runs with the same prompt and max_retries return equal
\* records whatever the failing outcomes of the model were.
C18_FallbackDependsOnPromptOnly ==
    (pc = "done" /\ fallbacks = 1)
    => /\ returned = [kind |-> "dict", toks |-> Template(FirstMatch(prompt))]
       /\ (prompt = PromptBusiness => returned.toks = TemplateBusiness)
       /\ (prompt = PromptOther => returned.toks = TemplateGeneric)

C18_Witness ==
    /\ pc = "done"
    /\ fallbacks = 1
    /\ prompt = PromptTest
    /\ max_retries = 2
    /\ collaborator = Outcomes
    /\ response = TextFencedBraceString
    /\ warnings = 1
    /\ errors = 2
    /\ repairs = 1
    /\ returned.toks = TemplateTest


\* two texts that differ at most in the letter case of their characters
DifferOnlyInCase(p, q) ==
    /\ Len(p) = Len(q)
    /\ \A k \in 1..Len(p) : SameLetter(p[k], q[k])

\* C19: the selection of the fallback category is case-insensitive: two
\* prompts that differ only in the letter case of their characters get the
\* template of the same category.
C19_CaseInsensitive ==
    \A i, j \in DOMAIN lookups :
        DifferOnlyInCase(lookups[i].prompt, lookups[j].prompt)
        => lookups[i].record = lookups[j].record

C19_Witness ==
    /\ Len(lookups) = 2
    /\ lookups[1].prompt = PromptTest
    /\ lookups[2].prompt = PromptTestUpper
    /\ lookups[1].prompt # lookups[2].prompt
    /\ DifferOnlyInCase(lookups[1].prompt, lookups[2].prompt)
    /\ lookups[1].record = TemplateTest
    /\ lookups[2].record = TemplateTest


\* C20: every record the lookup returns is non-empty: it has at least one
\* key, no string value in it is the empty string and no list in it, at any
\* nesting level, is the empty list.
C20_TemplatesNonEmpty ==
    \A k \in DOMAIN lookups :
        LET r == lookups[k].record
        IN  /\ r[1] = "{"
            /\ TopKeys(r) # {}
            /\ \A i \in 1..(Len(r) - 1) :
                   /\ (IsStr(r[i]) /\ r[i + 1] # ":") => Len(r[i]) > 1
                   /\ r[i] = "[" => r[i + 1] # "]"

C20_Witness ==
    /\ Len(lookups) = 2
    /\ lookups[1].record = TemplateGeneric
    /\ lookups[2].record = TemplateUserManual
    /\ Cardinality(TopKeys(lookups[1].record)) = 2
    /\ Cardinality(TopKeys(lookups[2].record)) = 7
    /\ \E i \in 1..Len(lookups[2].record) : lookups[2].record[i] = "["


\* C15: for each of the eight prompts analyze_from_text and analyze_codebase
\* build, and every embedded project description or file content, the
\* fallback record _call_llm returns when all attempts fail has the same
\* top-level keys as the JSON shape that prompt asks for.
C15_FallbackHasRequestedKeys ==
    (pc = "done" /\ fallbacks = 1)
    => \A b \in BuiltPrompts :
           prompt = b.prompt => TopKeys(returned.toks) = b.keys


\* the texts that parse as an object without the keys any prompt asks for
MismatchedObjects == {TextObject, TextObjectSpaced, TextEmptyObject}

\* the object a text of MismatchedObjects stands for
MismatchedValue(text) ==
    [kind |-> "dict",
     toks |-> IF text = TextEmptyObject
              THEN <<"{", "}">>
              ELSE <<"{", "\"a", ":", "1", "}">>]

\* C21: a shape mismatch is not detected: when an attempt returns a text that
\* parses as an object without the keys the prompt asked for, the empty
\* object included, _call_llm returns that object as it is at that attempt,
\* with no further attempt, no repair and no fallback.
C21_ShapeMismatchNotDetected ==
    /\ [][(pc = "loads" /\ response \in MismatchedObjects) =>
              /\ pc' = "done"
              /\ returned' = MismatchedValue(response)
              /\ attempt' = attempt
              /\ invocations' = invocations
              /\ repairs' = repairs
              /\ fallbacks' = fallbacks
              /\ warnings' = warnings
              /\ errors' = errors]_vars
    /\ []((pc = "done" /\ response \in MismatchedObjects) =>
              /\ returned = MismatchedValue(response)
              /\ TopKeys(returned.toks) # TopKeys(_get_fallback_structure(prompt))
              /\ invocations = attempt + 1
              /\ repairs = 0
              /\ fallbacks = 0)

C21_Witness ==
    /\ pc = "done"
    /\ prompt = PromptDatabase
    /\ max_retries = 3
    /\ response = TextEmptyObject
    /\ returned = [kind |-> "dict", toks |-> <<"{", "}">>]
    /\ attempt = 1
    /\ invocations = 2
    /\ failed = 1
    /\ fallbacks = 0


\* the keys of the result of an analysis, in the order of its calls
CallOrder ==
    <<"business", "app_architecture", "tech_architecture", "database_design",
      "uiux_design", "frd", "test_scripts", "user_manual">>

\* the keys of a mapping, in insertion order
KeysOf(d) == [k \in DOMAIN d |-> d[k].key]

\* C22: the pipeline goes on after a fallback: each analysis makes its eight
\* calls in the order business, app_architecture, tech_architecture,
\* database_design, uiux_design, frd, test_scripts, user_manual, whatever
\* the model does, and returns a mapping with exactly these keys; a call
\* that ends in fallback is followed by the next call like any other.
C22_PipelineContinues ==
    /\ [](/\ run.flow # "none" => KeysOf(analyses) = SubSeq(CallOrder, 1, Len(analyses))
          /\ pc \in {"for", "create", "loads", "except_json", "repair",
                     "return_489", "except_exception", "return_494", "done"}
                => /\ Len(analyses) = run.step - 1
                   /\ \E b \in BuiltPrompts :
                          b.prompt = prompt /\ b.call = CallOrder[run.step]
          /\ pc \in {"return_analyses", "set_complete"}
                => KeysOf(analyses) = CallOrder)
    /\ [][(pc = "done") =>
              /\ analyses' = Append(analyses, [key |-> CallOrder[run.step],
                                               value |-> returned])
              /\ (run.step < 8 => pc' = "progress" /\ run'.step = run.step + 1)
              /\ (run.step = 8 => pc' = "return_analyses")]_vars
    /\ [][(pc = "progress" /\ pc' # "flow_except") =>
              /\ pc' = "for"
              /\ max_retries' = 3
              /\ run' = run]_vars

\* the run returns its mapping after fallbacks in the first, third and last
\* call
C22_Witness ==
    /\ pc = "return_analyses"
    /\ run.flow = "text"
    /\ KeysOf(analyses) = CallOrder
    /\ analyses[1].value.toks = TemplateBusiness
    /\ analyses[2].value.toks = <<"{", "\"a", ":", "1", "}">>
    /\ analyses[3].value.toks = TemplateTechnicalArchitecture
    /\ analyses[8].value.toks = TemplateUserManual
    /\ fallbacks = 1


\* C28: over any sequence of analysis runs, analysis_complete is true only
\* if analysis_data holds the complete mapping of a run that finished; a run
\* that raises before it finishes leaves analysis_complete and
\* analysis_data as they were before the run.
C28_SessionStateConsistent ==
    /\ [](/\ analysis_complete
                => /\ ~analysis_data.none
                   /\ KeysOf(analysis_data.mapping) = CallOrder
          /\ ~analysis_data.none => KeysOf(analysis_data.mapping) = CallOrder
          /\ pc \in {"construct", "extract", "flow_except"}
                => Len(analyses) < Len(CallOrder))
    /\ [][(pc \notin {"return_analyses", "set_complete"}) =>
              /\ analysis_data' = analysis_data
              /\ analysis_complete' = analysis_complete]_vars
    /\ [][(pc = "return_analyses") =>
              /\ KeysOf(analyses) = CallOrder
              /\ analysis_data' = [none |-> FALSE, mapping |-> analyses]
              /\ analysis_complete' = analysis_complete
              /\ pc' = "set_complete"]_vars
    /\ [][(pc = "set_complete") =>
              /\ analysis_data' = analysis_data
              /\ analysis_data.mapping = analyses
              /\ analysis_complete'
              /\ pc' = "idle"]_vars

\* the second run raises in its third call; the session state is that of
\* the first run, which fell back in every call
C28_Witness ==
    /\ pc = "flow_except"
    /\ runs = 2
    /\ run.flow = "codebase"
    /\ run.step = 3
    /\ Len(analyses) = 2
    /\ analyses[1].value.toks = <<"{", "\"a", ":", "1", "}">>
    /\ analysis_complete
    /\ KeysOf(analysis_data.mapping) = CallOrder
    /\ analysis_data.mapping[1].value.toks = TemplateBusiness


RECURSIVE AloneFrom(_, _, _, _)
\* what a call with prompt p and max_retries m returns from attempt a on
\* when it runs alone and the model answers with the outcomes outs
AloneFrom(p, m, outs, a) ==
    LET fallback == [kind |-> "dict", toks |-> Template(FirstMatch(p))]
        last     == a = m - 1
        text     == Strip(outs[a + 1].text)
        parsed   == JsonLoads(text)
        region   == ReSearch(ReplaceNewlines(text))
        repaired == JsonLoads(region.group)
    IN  IF a >= m THEN fallback
        ELSE IF outs[a + 1].raises
        THEN IF last THEN fallback ELSE AloneFrom(p, m, outs, a + 1)
        ELSE IF parsed.ok THEN [kind |-> parsed.kind, toks |-> parsed.toks]
        ELSE IF ~last THEN AloneFrom(p, m, outs, a + 1)
        ELSE IF region.found /\ repaired.ok
        THEN [kind |-> repaired.kind, toks |-> repaired.toks]
        ELSE fallback

Alone(p, m, outs) == AloneFrom(p, m, outs, 0)

\* C23: two _call_llm calls with independent prompts, their steps
\* interleaved in any order, do not affect each other: a step of one call
\* leaves the attempt counter, the response and the content of the other as
\* they are, a call makes at most its max_retries invocations and it
\* returns what it returns alone with the outcomes it received.
C23_CallsIndependent ==
    /\ [](\A i \in CallIds :
              /\ calls[i].invocations <= calls[i].max_retries
              /\ calls[i].attempt < calls[i].max_retries
              /\ calls[i].pc = "done"
                    => /\ calls[i].invocations = Len(calls[i].received)
                       /\ calls[i].returned
                              = Alone(calls[i].prompt, calls[i].max_retries,
                                      calls[i].received))
    /\ [][\A i, j \in CallIds :
              (calls'[i] # calls[i] /\ j # i)
              => calls'[j] = calls[j] /\ buffers'[j] = buffers[j]]_vars

\* call 1 has failed once and holds a fenced text, call 2 has returned the
\* object of its first attempt in between
C23_Witness ==
    /\ calls[1].pc = "repair"
    /\ calls[1].max_retries = 2
    /\ calls[1].attempt = 1
    /\ calls[1].received = <<Raises, Returns(TextFenced)>>
    /\ buffers[1].response = TextFenced
    /\ calls[2].pc = "done"
    /\ calls[2].attempt = 0
    /\ calls[2].received = <<Returns(TextObject)>>
    /\ calls[2].returned.toks = <<"{", "\"a", ":", "1", "}">>
    /\ buffers[2].response = TextObject


\* the attempts of call i that have failed: the model raised or its text
\* did not parse
FailedAttempts(i) ==
    {k \in 1..Len(calls[i].received) :
        \/ calls[i].received[k].raises
        \/ ~JsonLoads(Strip(calls[i].received[k].text)).ok}

\* call i is past the handler of its latest attempt
PastHandler(i) ==
    calls[i].pc \in {"for", "repair", "return_489", "return_494",
                     "return_496", "done"}

\* C24: diagnostics are advisory.  Every failed attempt has emitted a
\* warning or an error when the next attempt or the fallback begins, a
\* call whose first attempt parses emits none, and the record returned and
\* the number of invocations are the ones computed from the prompt,
\* max_retries and the outcomes of the model, whatever was emitted.
C24_DiagnosticsAdvisory ==
    \A i \in CallIds :
        /\ PastHandler(i)
              => calls[i].warnings + calls[i].errors
                     >= Cardinality(FailedAttempts(i))
        /\ (calls[i].pc = "done" /\ FailedAttempts(i) = {})
              => calls[i].warnings = 0 /\ calls[i].errors = 0
        /\ calls[i].pc = "done"
              => /\ calls[i].returned.kind
                        = Alone(calls[i].prompt, calls[i].max_retries,
                                calls[i].received).kind
                 /\ calls[i].returned.toks
                        = Alone(calls[i].prompt, calls[i].max_retries,
                                calls[i].received).toks
                 /\ calls[i].invocations
                        = IF calls[i].max_retries = 0 THEN 0
                          ELSE IF FailedAttempts(i)
                                      = 1..Len(calls[i].received)
                          THEN calls[i].max_retries
                          ELSE Len(calls[i].received)

\* call 1 failed twice, with a transport error and with a text that
\* the repair could not parse either, and emitted three diagnostics; call 2
\* parsed its first text and emitted none
C24_Witness ==
    /\ calls[1].pc = "done"
    /\ calls[1].received = <<Raises, Returns(TextProse)>>
    /\ calls[1].warnings = 1
    /\ calls[1].errors = 2
    /\ calls[1].fallbacks = 1
    /\ calls[2].pc = "done"
    /\ calls[2].received = <<Returns(TextObject)>>
    /\ calls[2].warnings = 0
    /\ calls[2].errors = 0


\* C25: a prompt that contains the phrase functional requirements and no
\* marker of the business, application architecture, technical architecture
\* or database categories resolves to the FRD template.
C25_FunctionalRequirementsIsFrd ==
    \A k \in DOMAIN lookups :
        LET p == lookups[k].prompt
        IN  (/\ ContainsNoCase(p, MarkerFunctionalRequirements)
             /\ Matching(p) \cap 1..4 = {})
            => lookups[k].record = TemplateFRD


\* the positions of the brace characters of a text
BracePositions(text) == {k \in 1..Len(text) : text[k] \in {"{", "}"}}

\* the part of a text from its first brace to its last brace
Outermost(text) ==
    IF BracePositions(text) = {} THEN << >>
    ELSE Slice(text,
               CHOOSE a \in BracePositions(text) : \A b \in BracePositions(text) : a <= b,
               CHOOSE a \in BracePositions(text) : \A b \in BracePositions(text) : a >= b)

\* a string token with a brace character in it
HasBrace(t) ==
    IsStr(t) /\ \E k \in 2..Len(t) : SubSeq(t, k, k) \in {"{", "}"}

\* the text is one well-formed JSON object, with no brace in its strings,
\* inside prose or fences that make the whole text unparseable
WrappedObject(text) ==
    /\ ~JsonLoads(Strip(text)).ok
    /\ JsonLoads(Outermost(text)).ok
    /\ JsonLoads(Outermost(text)).kind = "dict"
    /\ \A k \in DOMAIN JsonLoads(Outermost(text)).toks :
           ~HasBrace(JsonLoads(Outermost(text)).toks[k])

\* C26: on the final attempt, when the text is unparseable only because of
\* surrounding prose or fences and holds exactly one well-formed JSON object
\* with no brace in its strings, the repair step returns that whole
\* outermost object, at every nesting depth, and never an inner object.
C26_RepairReturnsOutermost ==
    (pc = "done" /\ repairs = 1 /\ WrappedObject(response))
        => returned = Value(JsonLoads(Outermost(response)))


\* C27: a call with max_retries <= 0 makes no model invocation and no
\* repair, emits no diagnostic, and returns the fallback template that the
\* prompt selects.
C27_NoAttemptsFallsBack ==
    max_retries <= 0 =>
        /\ invocations = 0
        /\ repairs = 0
        /\ warnings = 0
        /\ errors = 0
        /\ pc \in {"for", "return_496", "done"}
        /\ pc = "done" =>
               /\ returned = [kind |-> "dict",
                              toks |-> Template(FirstMatch(prompt))]
               /\ fallbacks = 1
               /\ attempt = -1

C27_Witness ==
    /\ max_retries = -1
    /\ pc = "done"
    /\ prompt = PromptDatabase
    /\ returned.toks = TemplateDatabase
    /\ invocations = 0


RECURSIVE FullLength(_)
\* the sum of the full lengths of the first n uploaded files
FullLength(n) == IF n = 0 THEN 0 ELSE FullLength(n - 1) + codebase[n].size

\* C29: the files placed in limited_contents are the longest prefix of
\* file_contents, in iteration order, whose full lengths sum to at most
\* 50000 characters: the selection stops at the first file that would
\* exceed the budget, no later file is included even if it would fit, and
\* the stored content of each included file has at most 5000 characters.
C29_LimitedIsLongestPrefix ==
    LET stored == limited.limited_contents
        n      == Len(stored)
    IN  /\ n <= Len(codebase)
        /\ \A k \in 1..n :
               /\ stored[k].path = codebase[k].path
               /\ stored[k].length <= 5000
               /\ stored[k].length
                      = IF codebase[k].size < 5000
                        THEN codebase[k].size ELSE 5000
        /\ FullLength(n) <= 50000
        /\ limited.total_chars = FullLength(n)
        /\ limited.at = "done" =>
               /\ n < Len(codebase) => FullLength(n + 1) > 50000
               /\ \A k \in 1..Len(codebase) :
                      (k <= n) <=> (FullLength(k) <= 50000)
               /\ LET whole == limited_contents(Uploaded)
                  IN  /\ Len(whole) = n
                      /\ \A k \in 1..n :
                             /\ whole[k].path = stored[k].path
                             /\ Len(whole[k].content) = stored[k].length

\* the second file would exceed the budget, so the third, which would fit,
\* is left out; the first is stored cut to 5000 characters
C29_Witness ==
    /\ limited.at = "done"
    /\ Len(codebase) = 3
    /\ codebase[1].size = 30000
    /\ codebase[2].size = 30001
    /\ codebase[3].size = 1
    /\ Len(limited.limited_contents) = 1
    /\ limited.limited_contents[1].length = 5000
    /\ limited.total_chars = 30000


\* the texts of a fenced block with the object a: 1 in it
FencedTexts == {TextFenced, TextFencedLines, TextFencedProse}

\* the text that the earlier version parses, for a text of the model
Parsed(text) ==
    IF text \in FencedTexts THEN TextObject
    ELSE IF text = TextFencedBraceString
    THEN <<"{", "\"", "a", "\"", ":", "\"", "}", "\"", "}">>
    ELSE IF text = TextFencedTwice THEN TextEmptyObject
    ELSE text

\* C30: the earlier single-attempt _call_llm makes exactly one model
\* invocation, never raises, and returns the empty mapping on every
\* transport or parse failure; on that one attempt it parses the content of
\* a json fenced block, which the first attempt of the retrying version
\* fails to parse.
C30_EarlierSingleAttempt ==
    /\ [](invocations <= 1 /\ pc \in {"create", "search", "loads", "except",
                                      "done"})
    /\ [][pc = "except" => (pc' = "done" /\ returned' = EmptyMapping)]_vars
    /\ [][pc = "done" => UNCHANGED vars]_vars
    /\ [](pc = "done" =>
            /\ invocations = 1
            /\ returned # NoValue
            /\ response = Unbound => (returned = EmptyMapping /\ errors = 1)
            /\ response # Unbound =>
                   LET r == JsonLoads(Parsed(response))
                   IN  /\ ~r.ok => (returned = EmptyMapping /\ errors = 1)
                       /\ r.ok => (returned = Value(r) /\ errors = 0)
            /\ response \in FencedTexts =>
                   /\ ~JsonLoads(Strip(response)).ok
                   /\ returned
                          = [kind |-> "dict",
                             toks |-> <<"{", "\"a", ":", "1", "}">>])

\* the object of a fenced block between prose is returned after one
\* invocation with no diagnostic
C30_Witness ==
    /\ pc = "done"
    /\ response = TextFencedProse
    /\ content = TextObject
    /\ invocations = 1
    /\ errors = 0
    /\ returned = [kind |-> "dict", toks |-> <<"{", "\"a", ":", "1", "}">>]

====
